---- MODULE Spec2Model ----
(***************************************************************************)
(* Model of the response-normalisation and analytics layer of yfa:         *)
(*   yfa/models/matchup.py   TeamScore, Matchup, WeeklyScoreboard,          *)
(*                           SeasonResults                                  *)
(*   yfa/models/roster.py    PlayerStats, TeamRoster                        *)
(*   yfa/analysis.py         WeeklyAnalyzer                                 *)
(*                                                                         *)
(* Wire payloads (the JSON the parsers receive) are modelled as records    *)
(* that keep the distinctions the parsers branch on: a key that is absent  *)
(* is the string "absent", an array that is too short has shape "short".   *)
(* Python's None is the record None.                                       *)
(***************************************************************************)
EXTENDS Integers, Sequences, FiniteSets, TLC

VARIABLES
    matchup_data,        \* Matchup.from_api_data: the wire payload (argument data)
    matchup,             \* Matchup.from_api_data: the Matchup returned, or None
    roster_data,         \* TeamRoster.from_api_data: the wire players container
    roster,              \* TeamRoster.from_api_data: the TeamRoster returned, or None
    weekly_scoreboards,  \* SeasonResults.weekly_scoreboards: <<week, scoreboard>> in
                         \* insertion order (a Python dict)
    analyzer,            \* the WeeklyAnalyzer, or None before it is constructed
    skins,               \* calculate_skins_winners: its locals, or None before the call
    survivor,            \* calculate_survivor_results: its locals, or None before the call
    power,               \* calculate_power_rankings: its locals, or None before the call
    record,              \* get_team_record: its argument and result, or None before the call
    detailed,            \* DetailedMatchup.create: its arguments and result, or None before the call
    weekly_scoreboard,   \* WeeklyScoreboard.from_api_data: its payload and result, or None
    extracted,           \* extract_list_items: its argument and result, or None
    coerced,             \* safe_int, safe_float, safe_str: the call's arguments and result, or None
    draft_complete,      \* is_draft_complete: what the API holds, the argument and the result, or None
    enrich,              \* _enrich_picks_with_names: its arguments, locals and result, or None
    http,                \* YahooHTTP with its token, the token store, the clock and the requests in flight, or None
    ordered,             \* SeasonResults filled in any week order and the three analyses of it, or None
    summary,             \* WeeklyAnalyzer.export_season_summary: the season and the team_records returned, or None
    watch,               \* watch_draft_picks: its arguments, locals and the callback invocations so far, or None
    auth                 \* AuthClient with the token store, the clock and the call of get_valid_token in progress, or None

parserVars == <<matchup_data, matchup, roster_data, roster>>

seasonVars == <<weekly_scoreboards, analyzer, skins, survivor, power, record>>

vars == <<matchup_data, matchup, roster_data, roster, weekly_scoreboards, analyzer,
          skins, survivor, power, record, detailed, weekly_scoreboard, extracted,
          coerced, draft_complete, enrich, http, ordered, summary, watch, auth>>

None == [none |-> TRUE]

\* The state of the calls modelled further down.
laterVars == <<detailed, weekly_scoreboard, extracted, coerced, draft_complete, enrich,
               http, ordered, summary, watch, auth>>

exceptDetailed == <<parserVars, seasonVars, weekly_scoreboard, extracted, coerced, draft_complete,
        enrich, http, ordered, summary, watch, auth>>

exceptScoreboard == <<parserVars, seasonVars, detailed, extracted, coerced, draft_complete, enrich,
        http, ordered, summary, watch, auth>>

exceptExtracted == <<parserVars, seasonVars, detailed, weekly_scoreboard, coerced, draft_complete,
        enrich, http, ordered, summary, watch, auth>>

exceptCoerced == <<parserVars, seasonVars, detailed, weekly_scoreboard, extracted, draft_complete,
        enrich, http, ordered, summary, watch, auth>>

exceptDraftComplete == <<parserVars, seasonVars, detailed, weekly_scoreboard, extracted, coerced, enrich,
        http, ordered, summary, watch, auth>>

exceptEnrich == <<parserVars, seasonVars, detailed, weekly_scoreboard, extracted, coerced,
        draft_complete, http, ordered, summary, watch, auth>>

exceptHttp == <<parserVars, seasonVars, detailed, weekly_scoreboard, extracted, coerced,
        draft_complete, enrich, ordered, summary, watch, auth>>

exceptOrdered == <<parserVars, seasonVars, detailed, weekly_scoreboard, extracted, coerced,
        draft_complete, enrich, http, summary, watch, auth>>

exceptSummary == <<parserVars, seasonVars, detailed, weekly_scoreboard, extracted, coerced,
        draft_complete, enrich, http, ordered, watch, auth>>

exceptWatch == <<parserVars, seasonVars, detailed, weekly_scoreboard, extracted, coerced,
        draft_complete, enrich, http, ordered, summary, auth>>

exceptAuth == <<parserVars, seasonVars, detailed, weekly_scoreboard, extracted, coerced,
        draft_complete, enrich, http, ordered, summary, watch>>

\* None of those calls has been made.
IdleLater ==
    /\ detailed = None
    /\ weekly_scoreboard = None
    /\ extracted = None
    /\ coerced = None
    /\ draft_complete = None
    /\ enrich = None
    /\ http = None
    /\ ordered = None
    /\ summary = None
    /\ watch = None
    /\ auth = None

Abs(x) == IF x < 0 THEN -x ELSE x

Max2(a, b) == IF a >= b THEN a ELSE b

(***************************************************************************)
(* Python truthiness of the wire values a flag such as is_tied can carry:  *)
(* bool(0) is False, bool(1) is True, and every non-empty string is True,  *)
(* the string "0" included.  An absent key takes the .get default 0.       *)
(***************************************************************************)
WireFlags == {"absent", "int0", "int1", "str0", "str1"}

PyBool(flag) == flag \in {"int1", "str0", "str1"}

(***************************************************************************)
(* float() of the wire text of a team's point total.  Team totals are      *)
(* drawn from integer-valued doubles, on which binary64 subtraction and    *)
(* comparison are exact, so they are held as integers.  Two texts can      *)
(* denote the same double.                                                 *)
(***************************************************************************)
TeamTotals == {"0", "1", "2", "2.0", "3", "5"}

PyFloat(text) ==
    CASE text = "0"   -> 0
      [] text = "1"   -> 1
      [] text = "2"   -> 2
      [] text = "2.0" -> 2
      [] text = "3"   -> 3
      [] text = "5"   -> 5

(***************************************************************************)
(* TeamScore.from_api_data.  data is the "team" array of the payload:      *)
(* element 0 the list of single-key property mappings, element 1 the       *)
(* stats mapping.  An array with fewer than two elements (shape "short",   *)
(* which is also what the caller's .get("team", []) default gives) leaves  *)
(* every field at its default.                                             *)
(***************************************************************************)
TeamScoreFromApiData(data) ==
    IF data.shape = "ok"
    THEN [team_key  |-> data.team_key,
          team_name |-> data.name,
          points    |-> IF data.total = "absent" THEN 0 ELSE PyFloat(data.total)]
    ELSE [team_key |-> "", team_name |-> "", points |-> 0]

\* Mutant of Margin: the signed difference.
MarginWithoutAbs(team1, team2) == team1.points - team2.points

\* margin = abs(team1.points - team2.points)
Margin(team1, team2) == Abs(team1.points - team2.points)

\* is_tied = bool(matchup_info.get("is_tied", 0)) or team1.points == team2.points
IsTied(flag, team1, team2) == PyBool(flag) \/ team1.points = team2.points

(***************************************************************************)
(* Matchup.from_api_data(data, week).                                      *)
(***************************************************************************)
MatchupFromApiData(data, week) ==
    LET team1 == TeamScoreFromApiData(data.team1)
        team2 == TeamScoreFromApiData(data.team2)
    IN  [week              |-> week,
         team1             |-> team1,
         team2             |-> team2,
         winner_team_key   |-> IF data.winner_team_key = "absent"
                               THEN "None" ELSE data.winner_team_key,
         margin_of_victory |-> Margin(team1, team2),
         is_tied           |-> IsTied(data.is_tied, team1, team2),
         status            |-> IF data.status = "absent"
                               THEN "unknown" ELSE data.status]

(***************************************************************************)
(* Player points are Python floats (IEEE binary64) that carry cents, so    *)
(* their sums round.  A float is held exactly, as <<hi, lo>> with          *)
(*     value = (hi * 2^29 + lo) * 2^-48,                                   *)
(* which covers every non-negative binary64 value below 2^10 that is a     *)
(* multiple of 2^-48: all doubles in [16, 1024), 0, and below 16 the       *)
(* doubles that are multiples of 2^-48 (the small integers among them).    *)
(* Every multiple of 2^-48 below 2^5 (hi < 2^24) is a binary64 value; each *)
(* doubling of the magnitude doubles the spacing of the representable      *)
(* values.                                                                 *)
(***************************************************************************)
Limb == 2^29

FZero == <<0, 0>>

\* Spacing of the binary64 values, in units of 2^-48, in the binade of <<hi, lo>>.
RECURSIVE Ulp(_)
Ulp(hi) == IF hi < 2^24 THEN 1 ELSE 2 * Ulp(hi \div 2)

\* The exact sum, which need not be a binary64 value.
ExactAdd(a, b) ==
    LET lo == a[2] + b[2]
    IN  <<a[1] + b[1] + (lo \div Limb), lo % Limb>>

\* Round to nearest binary64 value, ties to the even significand.
RoundB64(x) ==
    LET u    == Ulp(x[1])
        r    == x[2] % u
        down == x[2] - r
        odd  == (down \div u) % 2 = 1
        up   == (2 * r > u) \/ (2 * r = u /\ odd)
        lo   == IF up THEN down + u ELSE down
    IN  <<x[1] + (lo \div Limb), lo % Limb>>

\* Python's a + b on floats.
FAdd(a, b) == RoundB64(ExactAdd(a, b))

\* Python's sum(...) over floats: left to right, starting from 0.
RECURSIVE FSum(_)
FSum(points) ==
    IF points = <<>> THEN FZero
    ELSE FAdd(FSum(SubSeq(points, 1, Len(points) - 1)), points[Len(points)])

\* |a - b| in units of 2^-48, for values less than 2^-18 apart in hi.
FDistance(a, b) == Abs((a[1] - b[1]) * Limb + (a[2] - b[2]))

(***************************************************************************)
(* safe_float(value): None gives the default 0.0, a blank string the       *)
(* default, a numeric string its double, and a string float() rejects      *)
(* (ValueError) the default.  The doubles are the binary64 values of the   *)
(* decimal texts.                                                          *)
(***************************************************************************)
SafeFloat(value) ==
    CASE value = ""      -> FZero
      [] value = "abc"   -> FZero
      [] value = "5"     -> <<5 * 2^19, 0>>
      [] value = "8"     -> <<8 * 2^19, 0>>
      [] value = "10"    -> <<10 * 2^19, 0>>
      [] value = "18.41" -> <<9652142, 42949673>>
      [] value = "19.34" -> <<10139729, 493921239>>
      [] value = "26.68" -> <<13988003, 450971566>>

\* The lineup slot codes of the payloads; "int" is a position that is not a string.
SelectedPositions == {"QB", "RB", "BN", "IR", "IR+"}

\* selected_position.startswith("BN"): of the slot codes, only BN starts with "BN".
StartsWithBN(selected_position) == selected_position = "BN"

\* is_starter = not selected_position.startswith("BN")
IsStarter(selected_position) == ~StartsWithBN(selected_position)

(***************************************************************************)
(* PlayerStats.from_api_data(data).  data is the "player" array; with      *)
(* fewer than three elements (shape "short") every field keeps its         *)
(* default, selected_position "BN" and points 0.0 among them.  A position  *)
(* that is not a string makes selected_position.startswith raise.          *)
(***************************************************************************)
PlayerStatsRaises(data) == data.shape = "ok" /\ data.position = "int"

PlayerStatsFromApiData(data) ==
    LET selected_position ==
            IF data.shape = "ok" /\ data.position # "absent"
            THEN data.position ELSE "BN"
        points ==
            IF data.shape = "ok" /\ data.total # "absent"
            THEN SafeFloat(data.total) ELSE FZero
    IN  [selected_position |-> selected_position,
         points            |-> points,
         is_starter        |-> IsStarter(selected_position)]

(***************************************************************************)
(* TeamRoster.from_api_data.  The players container is a list (structure   *)
(* A) or a mapping with numeric keys and a "count" entry (structure B),    *)
(* held as a sequence of <<key, value>>.  An item is skipped when it is    *)
(* falsy, when it has no "player" key, and when parsing it raises.         *)
(***************************************************************************)
RECURSIVE PlayerDataItems(_)
PlayerDataItems(container) ==
    IF container.shape = "list" THEN container.items
    ELSE IF container.items = <<>> THEN <<>>
    ELSE LET head == Head(container.items)
             rest == PlayerDataItems([container EXCEPT !.items = Tail(@)])
         IN  IF head[1] = "count" THEN rest ELSE <<head[2]>> \o rest

ItemIsParsed(player_data) ==
    /\ player_data.kind = "player"
    /\ ~PlayerStatsRaises(player_data.player)

\* Mutant of AppendPlayer: a starter is also appended to bench.
AppendPlayerToBoth(lists, player_stats) ==
    [players  |-> Append(lists.players, player_stats),
     starters |-> IF player_stats.is_starter
                  THEN Append(lists.starters, player_stats) ELSE lists.starters,
     bench    |-> Append(lists.bench, player_stats)]

\* players.append(...), then starters.append(...) or bench.append(...)
AppendPlayer(lists, player_stats) ==
    [players  |-> Append(lists.players, player_stats),
     starters |-> IF player_stats.is_starter
                  THEN Append(lists.starters, player_stats) ELSE lists.starters,
     bench    |-> IF player_stats.is_starter
                  THEN lists.bench ELSE Append(lists.bench, player_stats)]

RECURSIVE ParsePlayers(_)
ParsePlayers(items) ==
    IF items = <<>> THEN [players |-> <<>>, starters |-> <<>>, bench |-> <<>>]
    ELSE LET before      == ParsePlayers(SubSeq(items, 1, Len(items) - 1))
             player_data == items[Len(items)]
         IN  IF ItemIsParsed(player_data)
             THEN AppendPlayer(before, PlayerStatsFromApiData(player_data.player))
             ELSE before

PointsOf(players) == [i \in 1..Len(players) |-> players[i].points]

TeamRosterFromApiData(container) ==
    LET lists == ParsePlayers(PlayerDataItems(container))
    IN  [players        |-> lists.players,
         starters       |-> lists.starters,
         bench          |-> lists.bench,
         total_points   |-> FSum(PointsOf(lists.players)),
         starter_points |-> FSum(PointsOf(lists.starters)),
         bench_points   |-> FSum(PointsOf(lists.bench))]

(***************************************************************************)
(* Wire payloads of one roster: up to MaxPlayers items.                    *)
(***************************************************************************)
MaxPlayers == 3

WirePlayers ==
    {[shape |-> "ok", position |-> pos, total |-> t] :
        pos \in {"QB", "BN"}, t \in {"18.41", "19.34", "26.68"}}
    \cup {[shape |-> "ok", position |-> pos, total |-> "18.41"] :
             pos \in {"IR", "IR+", "absent", "int"}}
    \cup {[shape |-> "ok", position |-> "QB", total |-> t] : t \in {"", "absent"}}
    \cup {[shape |-> "short", position |-> "absent", total |-> "absent"]}

WireItems ==
    {[kind |-> "player", player |-> p] : p \in WirePlayers}
    \cup {[kind |-> "falsy", player |-> None], [kind |-> "other", player |-> None]}

\* The numeric-keyed mapping of structure B for the same items, "count" last.
AsMapping(items) ==
    [i \in 1..(Len(items) + 1) |->
        IF i <= Len(items) THEN <<"numeric", items[i]>> ELSE <<"count", None>>]

(***************************************************************************)
(* Wire payloads of one matchup for the parser specification.              *)
(***************************************************************************)
WireTeam(key, name) ==
    {[shape |-> "short", team_key |-> key, name |-> name, total |-> "absent"]}
    \cup {[shape |-> "ok", team_key |-> key, name |-> name, total |-> t] :
             t \in TeamTotals \cup {"absent"}}

WireMatchups ==
    {[team1 |-> a, team2 |-> b, is_tied |-> f, status |-> s, winner_team_key |-> w] :
        a \in WireTeam("k1", "A"), b \in WireTeam("k2", "B"), f \in WireFlags,
        s \in {"absent", "postevent"}, w \in {"absent", "k1"}}

\* Week numbers run from 1 to MaxWeek.
MaxWeek == 3

IdleRoster == roster_data = <<>> /\ roster = None

IdleSeason ==
    /\ weekly_scoreboards = <<>>
    /\ analyzer = None
    /\ skins = None
    /\ survivor = None
    /\ power = None
    /\ record = None

InitMatchup ==
    /\ matchup_data \in WireMatchups
    /\ matchup = None
    /\ IdleRoster
    /\ IdleSeason
    /\ IdleLater

\* One call of Matchup.from_api_data on the payload.
ParseMatchup ==
    /\ matchup = None
    /\ \E week \in 1..MaxWeek : matchup' = MatchupFromApiData(matchup_data, week)
    /\ UNCHANGED matchup_data

IdleMatchup == matchup_data = None /\ matchup = None

NextMatchup == ParseMatchup /\ UNCHANGED <<roster_data, roster>> /\ UNCHANGED seasonVars /\ UNCHANGED laterVars

SpecMatchup == InitMatchup /\ [][NextMatchup]_vars

\* The point totals the parser reads from the wire payload of one team.
WirePoints(data) ==
    IF data.shape = "ok" /\ data.total # "absent" THEN PyFloat(data.total) ELSE 0

(***************************************************************************)
(* C1 as stated: for every parsed Matchup and any value of the API's       *)
(* is_tied flag, margin_of_victory = |team1.points - team2.points|, is     *)
(* >= 0, and is 0 if and only if is_tied.                                  *)
(***************************************************************************)
C1_Original ==
    matchup # None =>
        /\ matchup.margin_of_victory
              = Abs(WirePoints(matchup_data.team1) - WirePoints(matchup_data.team2))
        /\ matchup.margin_of_victory >= 0
        /\ (matchup.margin_of_victory = 0) <=> matchup.is_tied

(***************************************************************************)
(* C1 amended: margin_of_victory = |team1.points - team2.points| >= 0, and *)
(* is_tied holds exactly when the margin is 0 or the API's is_tied flag is *)
(* truthy; so a margin of 0 implies is_tied, and is_tied implies a margin  *)
(* of 0 only when the flag is absent or falsy.                             *)
(***************************************************************************)
C1_MarginAndTie ==
    matchup # None =>
        /\ matchup.margin_of_victory
              = Abs(WirePoints(matchup_data.team1) - WirePoints(matchup_data.team2))
        /\ matchup.margin_of_victory >= 0
        /\ matchup.is_tied
              <=> (matchup.margin_of_victory = 0 \/ PyBool(matchup_data.is_tied))
        /\ (~PyBool(matchup_data.is_tied))
              => ((matchup.margin_of_victory = 0) <=> matchup.is_tied)

\* A parsed matchup with unequal points whose API flag is truthy.
C1_Witness ==
    /\ matchup # None
    /\ matchup.margin_of_victory > 0
    /\ PyBool(matchup_data.is_tied)
    /\ matchup.is_tied

(***************************************************************************)
(* TeamRoster.from_api_data on one roster payload.                         *)
(***************************************************************************)
InitRoster ==
    /\ \E n \in 0..MaxPlayers : \E items \in [1..n -> WireItems] :
          \/ roster_data = [shape |-> "list", items |-> items]
          \/ roster_data = [shape |-> "dict", items |-> AsMapping(items)]
    /\ roster = None
    /\ IdleMatchup
    /\ IdleSeason
    /\ IdleLater

\* One call of TeamRoster.from_api_data on the payload.
ParseRoster ==
    /\ roster = None
    /\ roster' = TeamRosterFromApiData(roster_data)
    /\ UNCHANGED roster_data

NextRoster == ParseRoster /\ UNCHANGED <<matchup_data, matchup>> /\ UNCHANGED seasonVars /\ UNCHANGED laterVars

SpecRoster == InitRoster /\ [][NextRoster]_vars

\* The subsequence of players with the given starter flag.
RECURSIVE WithStarterFlag(_, _)
WithStarterFlag(players, flag) ==
    IF players = <<>> THEN <<>>
    ELSE (IF Head(players).is_starter = flag THEN <<Head(players)>> ELSE <<>>)
         \o WithStarterFlag(Tail(players), flag)

\* starters and bench split players, each keeping the roster order.
RosterIsPartitioned ==
    /\ roster.starters = WithStarterFlag(roster.players, TRUE)
    /\ roster.bench = WithStarterFlag(roster.players, FALSE)
    /\ Len(roster.starters) + Len(roster.bench) = Len(roster.players)

(***************************************************************************)
(* C2 as stated: each parsed player is in exactly one of starters or       *)
(* bench, and starter_points + bench_points equals total_points.           *)
(***************************************************************************)
C2_Original ==
    roster # None =>
        /\ RosterIsPartitioned
        /\ FAdd(roster.starter_points, roster.bench_points) = roster.total_points

(***************************************************************************)
(* C2 amended: each parsed player is in exactly one of starters or bench,  *)
(* and starter_points + bench_points equals total_points up to the         *)
(* rounding of the three float sums: within 1e-9 (281474 units of 2^-48),  *)
(* and exactly when no player of one list carries points.                  *)
(***************************************************************************)
C2_PartitionAndTotals ==
    roster # None =>
        /\ RosterIsPartitioned
        /\ FDistance(FAdd(roster.starter_points, roster.bench_points),
                     roster.total_points) <= 281474
        /\ (roster.starters = <<>> \/ roster.bench = <<>>)
              => FAdd(roster.starter_points, roster.bench_points) = roster.total_points

\* A parsed roster with a starter and two bench players whose sums round differently.
C2_Witness ==
    /\ roster # None
    /\ roster.starters # <<>>
    /\ Len(roster.bench) >= 2
    /\ FAdd(roster.starter_points, roster.bench_points) # roster.total_points

BenchSlots == {"BN", "IR", "IR+"}

(***************************************************************************)
(* C3: is_starter is true exactly when selected_position is not a bench or *)
(* IR slot: a player slotted at BN, IR or IR+ is not a starter and is      *)
(* placed in bench, never in starters.                                     *)
(***************************************************************************)
C3_StarterIffNotBenchSlot ==
    roster # None =>
        /\ \A i \in 1..Len(roster.players) :
              roster.players[i].is_starter
                  <=> (roster.players[i].selected_position \notin BenchSlots)
        /\ \A i \in 1..Len(roster.starters) :
              roster.starters[i].selected_position \notin BenchSlots

(***************************************************************************)
(* SeasonResults.  weekly_scoreboards is a dict keyed by week number; it   *)
(* is held as the sequence of its <<week, scoreboard>> items in insertion  *)
(* order, which is the order Python iterates it in.                        *)
(***************************************************************************)
StoredWeeks == {weekly_scoreboards[i][1] : i \in 1..Len(weekly_scoreboards)}

\* season_results.weekly_scoreboards[week]
ScoreboardOf(week) ==
    LET i == CHOOSE j \in 1..Len(weekly_scoreboards) : weekly_scoreboards[j][1] = week
    IN  weekly_scoreboards[i][2]

\* list(weekly_scoreboards.keys()): the weeks in insertion order.
Keys == [i \in 1..Len(weekly_scoreboards) |-> weekly_scoreboards[i][1]]

\* Mutant of Sorted: the sequence as it stands.
Unsorted(weeks) == weeks

\* sorted(weeks): insertion sort into ascending order.
RECURSIVE Sorted(_)
Sorted(weeks) ==
    IF weeks = <<>> THEN <<>>
    ELSE LET rest  == Sorted(Tail(weeks))
             w     == Head(weeks)
             below == SelectSeq(rest, LAMBDA x : x < w)
             above == SelectSeq(rest, LAMBDA x : x >= w)
         IN  below \o <<w>> \o above

\* self.weekly_scoreboards[scoreboard.week] = scoreboard
DictSet(items, week, scoreboard) ==
    IF \E i \in 1..Len(items) : items[i][1] = week
    THEN [i \in 1..Len(items) |->
             IF items[i][1] = week THEN <<week, scoreboard>> ELSE items[i]]
    ELSE Append(items, <<week, scoreboard>>)

(***************************************************************************)
(* The scoreboards of the analysed seasons: four teams, a scoreboard being *)
(* a list of Matchups, each built by Matchup.from_api_data from the wire   *)
(* payload of one matchup.                                                 *)
(***************************************************************************)
TeamName(team_key) ==
    CASE team_key = "k1" -> "A"
      [] team_key = "k2" -> "B"
      [] team_key = "k3" -> "C"
      [] team_key = "k4" -> "D"

WireTeamOf(team_key, total) ==
    [shape |-> "ok", team_key |-> team_key, name |-> TeamName(team_key), total |-> total]

\* A finished matchup whose API winner is the higher scorer, absent on equal points.
WireFinal(key1, total1, key2, total2) ==
    [team1 |-> WireTeamOf(key1, total1), team2 |-> WireTeamOf(key2, total2),
     is_tied |-> "int0", status |-> "postevent",
     winner_team_key |-> IF PyFloat(total1) > PyFloat(total2) THEN key1
                         ELSE IF PyFloat(total2) > PyFloat(total1) THEN key2
                         ELSE "absent"]

Scoreboard(week, wires) ==
    [week |-> week,
     matchups |-> [i \in 1..Len(wires) |-> MatchupFromApiData(wires[i], week)]]

\* SeasonResults.add_week(scoreboard), for a scoreboard of the given payloads.
AddWeek(payloads) ==
    \E week \in 1..MaxWeek : \E wires \in payloads :
        weekly_scoreboards' = DictSet(weekly_scoreboards, week, Scoreboard(week, wires))

(***************************************************************************)
(* WeeklyAnalyzer.calculate_skins_winners.                                 *)
(***************************************************************************)
MinSkinsMargins == {2, 3}

WeeklyPots == {10}

SkinsPayloads ==
    {<<WireFinal("k1", "5", "k2", "2")>>,
     <<WireFinal("k1", "1", "k2", "3")>>,
     <<WireFinal("k1", "2", "k2", "2")>>,
     <<[WireFinal("k1", "5", "k2", "2") EXCEPT !.status = "midevent"]>>,
     <<[WireFinal("k1", "5", "k2", "2") EXCEPT !.is_tied = "int1"]>>,
     <<WireFinal("k1", "2", "k2", "5"), WireFinal("k3", "5", "k4", "0")>>,
     <<WireFinal("k3", "3", "k4", "0"), WireFinal("k1", "5", "k2", "2")>>}

\* Mutant of Qualifies: a margin equal to the threshold does not qualify.
QualifiesAboveOnly(m, min_skins_margin) ==
    /\ ~m.is_tied
    /\ m.status = "postevent"
    /\ m.margin_of_victory > min_skins_margin

\* not matchup.is_tied and matchup.status == "postevent" and margin >= min_skins_margin
Qualifies(m, min_skins_margin) ==
    /\ ~m.is_tied
    /\ m.status = "postevent"
    /\ m.margin_of_victory >= min_skins_margin

\* Matchup.get_winning_team
GetWinningTeam(m) ==
    IF m.is_tied THEN None
    ELSE IF m.team1.points > m.team2.points THEN m.team1 ELSE m.team2

\* Matchup.get_team_opponent
GetTeamOpponent(m, team_key) ==
    IF m.team1.team_key = team_key THEN m.team2
    ELSE IF m.team2.team_key = team_key THEN m.team1
    ELSE None

\* The potential_winners list of one scoreboard, in matchup order.
RECURSIVE PotentialWinners(_, _)
PotentialWinners(matchups, min_skins_margin) ==
    IF matchups = <<>> THEN <<>>
    ELSE LET m      == Head(matchups)
             winner == GetWinningTeam(m)
             rest   == PotentialWinners(Tail(matchups), min_skins_margin)
         IN  IF Qualifies(m, min_skins_margin) /\ winner # None
             THEN <<[team |-> winner, margin |-> m.margin_of_victory, matchup |-> m]>>
                  \o rest
             ELSE rest

\* max(potential_winners, key=margin): the first entry with the largest margin.
RECURSIVE MaxByMargin(_)
MaxByMargin(entries) ==
    IF Len(entries) = 1 THEN entries[1]
    ELSE LET best == MaxByMargin(SubSeq(entries, 1, Len(entries) - 1))
             last == entries[Len(entries)]
         IN  IF last.margin > best.margin THEN last ELSE best

\* Mutant of PotAfterRollover: the pot does not grow.
PotWithoutRollover(current_pot, weekly_pot) == current_pot

\* current_pot += weekly_pot
PotAfterRollover(current_pot, weekly_pot) == current_pot + weekly_pot

\* skins_winners[team_name].append(win), creating the list on first use.
RecordWin(skins_winners, team_name, win) ==
    IF team_name \in DOMAIN skins_winners
    THEN [skins_winners EXCEPT ![team_name] = Append(@, win)]
    ELSE skins_winners @@ (team_name :> <<win>>)

InitSkins ==
    /\ weekly_scoreboards = <<>>
    /\ analyzer = None
    /\ skins = None
    /\ survivor = None
    /\ power = None
    /\ record = None
    /\ IdleMatchup
    /\ IdleRoster
    /\ IdleLater

\* season_results.add_week(scoreboard), before the analysis is called.
SkinsAddWeek ==
    /\ skins = None
    /\ AddWeek(SkinsPayloads)
    /\ UNCHANGED <<analyzer, skins>>

\* WeeklyAnalyzer(min_skins_margin).calculate_skins_winners(season_results, weekly_pot):
\* lines 44-47, up to the first evaluation of the loop's iterable.
SkinsCall ==
    /\ skins = None
    /\ \E min_skins_margin \in MinSkinsMargins, weekly_pot \in WeeklyPots :
          /\ analyzer' = [min_skins_margin |-> min_skins_margin]
          /\ skins' = [pc            |-> "loop",
                       weekly_pot    |-> weekly_pot,
                       weeks         |-> Sorted(Keys),
                       done          |-> <<>>,
                       current_pot   |-> weekly_pot,
                       skins_winners |-> <<>>]
    /\ UNCHANGED weekly_scoreboards

\* One iteration of the loop over the weeks (lines 47-87).
SkinsWeek ==
    /\ skins # None
    /\ skins.pc = "loop"
    /\ skins.weeks # <<>>
    /\ LET week_num          == Head(skins.weeks)
           scoreboard        == ScoreboardOf(week_num)
           potential_winners == PotentialWinners(scoreboard.matchups,
                                                 analyzer.min_skins_margin)
           week_winner       == MaxByMargin(potential_winners)
           winning_team      == week_winner.team
           win == [week       |-> week_num,
                   margin     |-> week_winner.margin,
                   pot_amount |-> skins.current_pot,
                   opponent   |-> GetTeamOpponent(week_winner.matchup,
                                                  winning_team.team_key).team_name]
       IN  IF potential_winners = <<>>
           THEN skins' = [skins EXCEPT
                             !.weeks = Tail(@),
                             !.done = Append(@, week_num),
                             !.current_pot = PotAfterRollover(@, skins.weekly_pot)]
           ELSE skins' = [skins EXCEPT
                             !.weeks = Tail(@),
                             !.done = Append(@, week_num),
                             !.skins_winners = RecordWin(@, winning_team.team_name, win),
                             !.current_pot = skins.weekly_pot]
    /\ UNCHANGED <<weekly_scoreboards, analyzer>>

\* return skins_winners (line 89)
SkinsReturn ==
    /\ skins # None
    /\ skins.pc = "loop"
    /\ skins.weeks = <<>>
    /\ skins' = [skins EXCEPT !.pc = "done"]
    /\ UNCHANGED <<weekly_scoreboards, analyzer>>

NextSkins ==
    \/ SkinsAddWeek /\ UNCHANGED parserVars /\ UNCHANGED <<survivor, power, record>> /\ UNCHANGED laterVars
    \/ SkinsCall /\ UNCHANGED parserVars /\ UNCHANGED <<survivor, power, record>> /\ UNCHANGED laterVars
    \/ SkinsWeek /\ UNCHANGED parserVars /\ UNCHANGED <<survivor, power, record>> /\ UNCHANGED laterVars
    \/ SkinsReturn /\ UNCHANGED parserVars /\ UNCHANGED <<survivor, power, record>> /\ UNCHANGED laterVars

SpecSkins == InitSkins /\ [][NextSkins]_vars

\* The recorded wins, as <<team name, index in that team's list>>.
SkinsWins ==
    UNION {{<<name, i>> : i \in 1..Len(skins.skins_winners[name])} :
              name \in DOMAIN skins.skins_winners}

WinOf(e) == skins.skins_winners[e[1]][e[2]]

\* The stored week has a matchup that qualifies for the skins pot.
HasQualifier(week) ==
    \E j \in 1..Len(ScoreboardOf(week).matchups) :
        Qualifies(ScoreboardOf(week).matchups[j], analyzer.min_skins_margin)

\* The number of consecutive stored weeks immediately before week without a qualifier.
RECURSIVE DryBefore(_)
DryBefore(week) ==
    LET below == {v \in StoredWeeks : v < week}
    IN  IF below = {} THEN 0
        ELSE LET prev == CHOOSE v \in below : \A u \in below : u <= v
             IN  IF HasQualifier(prev) THEN 0 ELSE 1 + DryBefore(prev)

SkinsEligible(m) ==
    /\ m.status = "postevent"
    /\ ~m.is_tied
    /\ m.team1.points # m.team2.points
    /\ m.margin_of_victory >= analyzer.min_skins_margin

(***************************************************************************)
(* C5: at most one win is recorded per week over all teams; the recorded   *)
(* winner is the higher-scoring team of a matchup that is postevent, not   *)
(* tied and has margin_of_victory >= min_skins_margin (a margin equal to   *)
(* the threshold qualifies, so a week with such a matchup has a win); its  *)
(* recorded margin is the largest margin of the week's qualifying          *)
(* matchups and the recorded opponent is the other team of that matchup.   *)
(***************************************************************************)
C5_SkinsWinner ==
    skins # None =>
        /\ \A e, f \in SkinsWins : WinOf(e).week = WinOf(f).week => e = f
        /\ \A i \in 1..Len(skins.done) :
              (\E j \in 1..Len(ScoreboardOf(skins.done[i]).matchups) :
                    SkinsEligible(ScoreboardOf(skins.done[i]).matchups[j]))
                  => \E e \in SkinsWins : WinOf(e).week = skins.done[i]
        /\ \A e \in SkinsWins :
              LET win      == WinOf(e)
                  matchups == ScoreboardOf(win.week).matchups
              IN  /\ \E j \in 1..Len(matchups) :
                        LET m == matchups[j]
                        IN  /\ SkinsEligible(m)
                            /\ win.margin = m.margin_of_victory
                            /\ \/ /\ m.team1.points > m.team2.points
                                  /\ e[1] = m.team1.team_name
                                  /\ win.opponent = m.team2.team_name
                               \/ /\ m.team2.points > m.team1.points
                                  /\ e[1] = m.team2.team_name
                                  /\ win.opponent = m.team1.team_name
                  /\ \A j \in 1..Len(matchups) :
                        SkinsEligible(matchups[j])
                            => matchups[j].margin_of_victory <= win.margin

\* A win by exactly the threshold, and a win in a week with two qualifying matchups.
C5_Witness ==
    /\ skins # None
    /\ skins.pc = "done"
    /\ \E e \in SkinsWins : WinOf(e).margin = analyzer.min_skins_margin
    /\ \E e \in SkinsWins :
          LET matchups == ScoreboardOf(WinOf(e).week).matchups
          IN  /\ Len(matchups) = 2
              /\ SkinsEligible(matchups[1]) /\ SkinsEligible(matchups[2])
              /\ matchups[1].margin_of_victory < matchups[2].margin_of_victory

(***************************************************************************)
(* WeeklyAnalyzer.calculate_survivor_results.  Teams are tracked by        *)
(* team_name; Python's None for a name is the string NoTeam.               *)
(***************************************************************************)
NoTeam == "None"

SurvivorPayloads ==
    {<<>>,
     <<WireFinal("k1", "5", "k2", "2")>>,
     <<WireFinal("k3", "0", "k4", "1")>>,
     <<WireFinal("k1", "2", "k2", "5"), WireFinal("k3", "3", "k4", "1")>>,
     <<WireFinal("k1", "3", "k2", "2"), WireFinal("k3", "1", "k4", "5")>>,
     <<WireFinal("k1", "2", "k2", "2"), WireFinal("k3", "2", "k4", "3")>>,
     <<WireFinal("k3", "3", "k4", "1"), WireFinal("k1", "2", "k2", "0")>>}

\* The elimination_weeks argument: None (the default), or an explicit list.
EliminationWeeksArgs ==
    {[is_none |-> TRUE, weeks |-> <<>>]}
    \cup {[is_none |-> FALSE, weeks |-> weeks] : weeks \in {<<2, 1>>, <<1, 1, 1>>}}

\* Mutant of FirstWeek: the week that was added first.
FirstInsertedWeek == Keys[1]

\* first_week = min(season_results.weekly_scoreboards.keys())
FirstWeek == CHOOSE w \in StoredWeeks : \A v \in StoredWeeks : w <= v

\* The team names of the matchups of one scoreboard (lines 117-120).
TeamNamesOf(scoreboard) ==
    UNION {{scoreboard.matchups[j].team1.team_name,
            scoreboard.matchups[j].team2.team_name} :
              j \in 1..Len(scoreboard.matchups)}

\* week_scores: the scores of the active teams, a dict in insertion order (lines 134-139).
RECURSIVE WeekScores(_, _)
WeekScores(matchups, active_teams) ==
    IF matchups = <<>> THEN <<>>
    ELSE LET before == WeekScores(SubSeq(matchups, 1, Len(matchups) - 1), active_teams)
             m      == matchups[Len(matchups)]
             with1  == IF m.team1.team_name \in active_teams
                       THEN DictSet(before, m.team1.team_name, m.team1.points)
                       ELSE before
         IN  IF m.team2.team_name \in active_teams
             THEN DictSet(with1, m.team2.team_name, m.team2.points)
             ELSE with1

\* Mutant of LowestScorer: the first item with the largest score.
RECURSIVE HighestScorer(_)
HighestScorer(week_scores) ==
    IF Len(week_scores) = 1 THEN week_scores[1]
    ELSE LET best == HighestScorer(SubSeq(week_scores, 1, Len(week_scores) - 1))
             last == week_scores[Len(week_scores)]
         IN  IF last[2] > best[2] THEN last ELSE best

\* min(week_scores.items(), key=score): the first item with the smallest score.
RECURSIVE LowestScorer(_)
LowestScorer(week_scores) ==
    IF Len(week_scores) = 1 THEN week_scores[1]
    ELSE LET best == LowestScorer(SubSeq(week_scores, 1, Len(week_scores) - 1))
             last == week_scores[Len(week_scores)]
         IN  IF last[2] < best[2] THEN last ELSE best

\* Mutant of SurvivorWinner: any remaining team is named the winner.
SurvivorWinnerOfAny(active_teams) ==
    IF active_teams # {} THEN CHOOSE t \in active_teams : TRUE ELSE NoTeam

\* next(iter(active_teams)) if len(active_teams) == 1 else None
SurvivorWinner(active_teams) ==
    IF Cardinality(active_teams) = 1 THEN CHOOSE t \in active_teams : TRUE ELSE NoTeam

InitSurvivor ==
    /\ weekly_scoreboards = <<>>
    /\ analyzer = None
    /\ skins = None
    /\ survivor = None
    /\ power = None
    /\ record = None
    /\ IdleMatchup
    /\ IdleRoster
    /\ IdleLater

\* season_results.add_week(scoreboard), before the analysis is called.
SurvivorAddWeek ==
    /\ survivor = None
    /\ AddWeek(SurvivorPayloads)
    /\ UNCHANGED <<analyzer, skins, survivor>>

\* calculate_survivor_results(season_results, elimination_weeks): lines 107-122.
SurvivorCall ==
    /\ survivor = None
    /\ \E given \in EliminationWeeksArgs :
          LET elimination_weeks == IF given.is_none THEN Sorted(Keys) ELSE given.weeks
          IN  IF weekly_scoreboards = <<>>
              THEN survivor' = [pc |-> "done",
                                elimination_weeks |-> elimination_weeks,
                                pos |-> 0,
                                active_teams |-> {},
                                eliminations |-> <<>>,
                                winner |-> NoTeam,
                                has_final_active_teams |-> FALSE]
              ELSE survivor' = [pc |-> "loop",
                                elimination_weeks |-> elimination_weeks,
                                pos |-> 0,
                                active_teams |-> TeamNamesOf(ScoreboardOf(FirstWeek)),
                                eliminations |-> <<>>,
                                winner |-> NoTeam,
                                has_final_active_teams |-> FALSE]
    /\ UNCHANGED <<weekly_scoreboards, analyzer, skins>>

\* One iteration of the loop over elimination_weeks (lines 124-153).
SurvivorWeek ==
    /\ survivor # None
    /\ survivor.pc = "loop"
    /\ survivor.pos < Len(survivor.elimination_weeks)
    /\ Cardinality(survivor.active_teams) > 1
    /\ LET week == survivor.elimination_weeks[survivor.pos + 1]
           week_scores == WeekScores(ScoreboardOf(week).matchups, survivor.active_teams)
           eliminated_team == LowestScorer(week_scores)
           active_teams == survivor.active_teams \ {eliminated_team[1]}
       IN  IF week \notin StoredWeeks
           THEN survivor' = [survivor EXCEPT !.pos = @ + 1]
           ELSE IF week_scores = <<>>
           THEN survivor' = [survivor EXCEPT !.pos = @ + 1]
           ELSE survivor' = [survivor EXCEPT
                   !.pos = @ + 1,
                   !.active_teams = active_teams,
                   !.eliminations = Append(@,
                       [week             |-> week,
                        eliminated_team  |-> eliminated_team[1],
                        eliminated_score |-> eliminated_team[2],
                        remaining_teams  |-> Cardinality(active_teams)])]
    /\ UNCHANGED <<weekly_scoreboards, analyzer, skins>>

\* The loop ends (break, or the list is exhausted) and the result is returned
\* (lines 125-126 and 155-161).
SurvivorReturn ==
    /\ survivor # None
    /\ survivor.pc = "loop"
    /\ \/ survivor.pos = Len(survivor.elimination_weeks)
       \/ Cardinality(survivor.active_teams) <= 1
    /\ survivor' = [survivor EXCEPT
                       !.pc = "done",
                       !.winner = SurvivorWinner(survivor.active_teams),
                       !.has_final_active_teams = TRUE]
    /\ UNCHANGED <<weekly_scoreboards, analyzer, skins>>

NextSurvivor ==
    \/ SurvivorAddWeek /\ UNCHANGED parserVars /\ UNCHANGED <<power, record>> /\ UNCHANGED laterVars
    \/ SurvivorCall /\ UNCHANGED parserVars /\ UNCHANGED <<power, record>> /\ UNCHANGED laterVars
    \/ SurvivorWeek /\ UNCHANGED parserVars /\ UNCHANGED <<power, record>> /\ UNCHANGED laterVars
    \/ SurvivorReturn /\ UNCHANGED parserVars /\ UNCHANGED <<power, record>> /\ UNCHANGED laterVars

SpecSurvivor == InitSurvivor /\ [][NextSurvivor]_vars

\* The teams of the matchups of the lowest-numbered stored week.
SeededTeams ==
    IF StoredWeeks = {} THEN {}
    ELSE TeamNamesOf(ScoreboardOf(CHOOSE w \in StoredWeeks : \A v \in StoredWeeks : w <= v))

\* The team plays in the stored week.
HasScore(week, team) ==
    /\ week \in StoredWeeks
    /\ \E j \in 1..Len(ScoreboardOf(week).matchups) :
          team \in {ScoreboardOf(week).matchups[j].team1.team_name,
                    ScoreboardOf(week).matchups[j].team2.team_name}

\* The points of the team in the stored week it plays in.
ScoreOf(week, team) ==
    LET matchups == ScoreboardOf(week).matchups
        j == CHOOSE k \in 1..Len(matchups) :
                 team \in {matchups[k].team1.team_name, matchups[k].team2.team_name}
    IN  IF matchups[j].team1.team_name = team
        THEN matchups[j].team1.points ELSE matchups[j].team2.points

EliminatedTeams(n) == {survivor.eliminations[k].eliminated_team : k \in 1..n}

\* The teams still active before the i-th elimination record.
ActiveBefore(i) == SeededTeams \ EliminatedTeams(i - 1)

C6_Records ==
    survivor # None =>
        \A i \in 1..Len(survivor.eliminations) :
            LET r == survivor.eliminations[i]
            IN  /\ r.eliminated_team \in ActiveBefore(i)
                /\ HasScore(r.week, r.eliminated_team)
                /\ r.eliminated_score = ScoreOf(r.week, r.eliminated_team)
                /\ \A t \in ActiveBefore(i) :
                      HasScore(r.week, t) => r.eliminated_score <= ScoreOf(r.week, t)
                /\ \A k \in 1..(i - 1) :
                      survivor.eliminations[k].eliminated_team # r.eliminated_team
                /\ i > 1 => r.remaining_teams
                              = survivor.eliminations[i - 1].remaining_teams - 1

C6_Step ==
    (survivor # None /\ survivor' # None /\ survivor'.pos = survivor.pos + 1) =>
        LET week   == survivor.elimination_weeks[survivor.pos + 1]
            scored == \E t \in survivor.active_teams : HasScore(week, t)
        IN  Len(survivor'.eliminations)
               = Len(survivor.eliminations) + (IF scored THEN 1 ELSE 0)

(***************************************************************************)
(* C6: every elimination record names a team that was active before that  *)
(* week and whose score that week is no greater than the score of every    *)
(* other active team with a score that week; exactly one team is           *)
(* eliminated per processed week in which some active team has a score     *)
(* (and none in any other processed week), no team is eliminated twice,    *)
(* and remaining_teams is one less than in the previous record.            *)
(***************************************************************************)
C6_OneEliminationPerWeek == []C6_Records /\ [][C6_Step]_vars

\* A finished run with three eliminations, one of them decided among tied lowest scores.
C6_Witness ==
    /\ survivor # None
    /\ survivor.pc = "done"
    /\ Len(survivor.eliminations) = Cardinality(SeededTeams) - 1
    /\ Cardinality(SeededTeams) > 2
    /\ \E i \in 1..Len(survivor.eliminations) : \E t \in ActiveBefore(i) :
          /\ t # survivor.eliminations[i].eliminated_team
          /\ HasScore(survivor.eliminations[i].week, t)
          /\ ScoreOf(survivor.eliminations[i].week, t)
                = survivor.eliminations[i].eliminated_score

(***************************************************************************)
(* C7: the active-team set is taken only from the matchups of the          *)
(* lowest-numbered stored week: a team absent from that week never appears *)
(* as an eliminated team, as the winner, or in final_active_teams.         *)
(***************************************************************************)
C7_OnlyFirstWeekTeams ==
    survivor # None =>
        /\ survivor.active_teams \subseteq SeededTeams
        /\ EliminatedTeams(Len(survivor.eliminations)) \subseteq SeededTeams
        /\ survivor.winner \in SeededTeams \cup {NoTeam}
        /\ survivor.pc = "loop" => survivor.active_teams
                                     = ActiveBefore(Len(survivor.eliminations) + 1)

\* A finished run over weeks added out of order in which a team absent from the
\* first week scored below the eliminated team.
C7_Witness ==
    /\ survivor # None
    /\ survivor.pc = "done"
    /\ Keys # Sorted(Keys)
    /\ \E i \in 1..Len(survivor.eliminations) :
          \E t \in {"A", "B", "C", "D"} \ SeededTeams :
              /\ HasScore(survivor.eliminations[i].week, t)
              /\ ScoreOf(survivor.eliminations[i].week, t)
                    < survivor.eliminations[i].eliminated_score

\* The teams active when the p-th entry of elimination_weeks is reached, given that
\* every earlier entry eliminated a team.
ActiveAtEntry(p) ==
    SeededTeams \ EliminatedTeams(IF p - 1 < Len(survivor.eliminations)
                                  THEN p - 1 ELSE Len(survivor.eliminations))

\* Every still-active team has a score in each elimination week.
ActiveTeamsAlwaysScore ==
    \A p \in 1..Len(survivor.elimination_weeks) :
        Cardinality(ActiveAtEntry(p)) > 1 =>
            \A t \in ActiveAtEntry(p) : HasScore(survivor.elimination_weeks[p], t)

(***************************************************************************)
(* C8: when the first week has N >= 1 teams, every still-active team has a *)
(* score in each elimination week and there are at least N-1 elimination   *)
(* weeks, the run ends with exactly N-1 eliminations and a non-null winner *)
(* that is the one first-week team never eliminated; in every run the      *)
(* winner is null when more than one active team remains.                  *)
(***************************************************************************)
C8_LastTeamWins ==
    (survivor # None /\ survivor.pc = "done") =>
        /\ Cardinality(survivor.active_teams) > 1 => survivor.winner = NoTeam
        /\ ( /\ Cardinality(SeededTeams) >= 1
             /\ Len(survivor.elimination_weeks) >= Cardinality(SeededTeams) - 1
             /\ ActiveTeamsAlwaysScore )
           => /\ Len(survivor.eliminations) = Cardinality(SeededTeams) - 1
              /\ survivor.winner # NoTeam
              /\ SeededTeams \ EliminatedTeams(Len(survivor.eliminations))
                    = {survivor.winner}

\* A finished run that eliminated three of four first-week teams.
C8_Witness ==
    /\ survivor # None
    /\ survivor.pc = "done"
    /\ Cardinality(SeededTeams) = 4
    /\ ActiveTeamsAlwaysScore
    /\ Len(survivor.eliminations) = 3
    /\ survivor.winner # NoTeam

(***************************************************************************)
(* WeeklyAnalyzer.calculate_power_rankings.  The season is assembled as    *)
(* LeaguesAPI.get_season_results does: weeks in ascending order, a week    *)
(* whose fetch failed being left out.                                      *)
(*                                                                         *)
(* Team points are integer-valued doubles, so the sums of at most a few    *)
(* of them are exact.  A rounded field round(x, 2) is held as the integer  *)
(* number of hundredths (win_percentage, rounded to 3 places, as           *)
(* thousandths).  The exact value of each x is a fraction with the number  *)
(* of games n as denominator; with fewer than 8 games it lies at least     *)
(* 1/(200 n) from every midpoint between two hundredths, far more than the *)
(* error of the double computation, so round() of the double is the        *)
(* hundredth nearest the exact value.                                      *)
(***************************************************************************)
MaxPowerWeek == 5

WindowWeeks == 4

PowerPayloads ==
    {<<WireFinal("k1", "5", "k2", "2")>>,
     <<WireFinal("k1", "3", "k2", "1")>>,
     <<WireFinal("k2", "1", "k1", "3")>>,
     <<WireFinal("k1", "2", "k2", "2")>>,
     <<WireFinal("k1", "2", "k2", "5"), WireFinal("k3", "3", "k4", "3")>>}

\* The weeks_to_analyze argument: None, or a list (out of order, with a repeated week).
WeeksToAnalyzeArgs ==
    {[is_none |-> TRUE, weeks |-> <<>>]}
        \cup {[is_none |-> FALSE, weeks |-> weeks] : weeks \in {<<2, 1>>, <<1, 1, 3>>}}

\* all_weeks[-4:] if len(all_weeks) >= 4 else all_weeks
DefaultWindow(all_weeks) ==
    IF Len(all_weeks) >= WindowWeeks
    THEN SubSeq(all_weeks, Len(all_weeks) - WindowWeeks + 1, Len(all_weeks))
    ELSE all_weeks

EmptyStats == [scores |-> <<>>, opponent_scores |-> <<>>, wins |-> 0, total_margin |-> 0]

\* key in items
HasKey(items, key) == \E i \in 1..Len(items) : items[i][1] = key

\* items[key]
DictGet(items, key) == items[CHOOSE i \in 1..Len(items) : items[i][1] = key][2]

\* The body of "for team in [matchup.team1, matchup.team2]" (lines 193-209).
CollectTeam(team_stats, m, team) ==
    LET started  == IF HasKey(team_stats, team.team_name) THEN team_stats
                    ELSE Append(team_stats, <<team.team_name, EmptyStats>>)
        stats    == DictGet(started, team.team_name)
        opponent == GetTeamOpponent(m, team.team_key)
    IN  IF opponent = None THEN started
        ELSE DictSet(started, team.team_name,
                 [scores          |-> Append(stats.scores, team.points),
                  opponent_scores |-> Append(stats.opponent_scores, opponent.points),
                  wins            |-> stats.wins
                                        + (IF team.points > opponent.points THEN 1 ELSE 0),
                  total_margin    |-> stats.total_margin
                                        + (team.points - opponent.points)])

\* "for matchup in scoreboard.matchups" (lines 192-209).
RECURSIVE CollectMatchups(_, _)
CollectMatchups(team_stats, matchups) ==
    IF matchups = <<>> THEN team_stats
    ELSE LET m == Head(matchups)
         IN  CollectMatchups(CollectTeam(CollectTeam(team_stats, m, m.team1), m, m.team2),
                             Tail(matchups))

\* sum(values)
RECURSIVE Sum(_)
Sum(values) == IF values = <<>> THEN 0 ELSE Head(values) + Sum(Tail(values))

\* The integer nearest num / den (den > 0), a midpoint going to the even neighbour.
RoundHalfEven(num, den) ==
    LET q == num \div den
        r == num - q * den
    IN  IF 2 * r < den THEN q
        ELSE IF 2 * r > den THEN q + 1
        ELSE IF q % 2 = 0 THEN q ELSE q + 1

\* round(avg_score * 0.4 + (avg_score - avg_opponent_score) * 0.3
\*       + win_percentage * 100 * 0.2 + avg_margin * 0.1, 2), in hundredths.
PowerRating(stats) ==
    LET n == Len(stats.scores)
        S == Sum(stats.scores)
        O == Sum(stats.opponent_scores)
    IN  RoundHalfEven(10 * (4 * S + 3 * (S - O) + 200 * stats.wins + stats.total_margin), n)

\* The entry appended for one team (lines 230-238).
PowerEntry(team_name, stats) ==
    LET n == Len(stats.scores)
    IN  [team_name          |-> team_name,
         power_rating       |-> PowerRating(stats),
         avg_score          |-> RoundHalfEven(100 * Sum(stats.scores), n),
         avg_opponent_score |-> RoundHalfEven(100 * Sum(stats.opponent_scores), n),
         win_percentage     |-> RoundHalfEven(1000 * stats.wins, n),
         avg_margin         |-> RoundHalfEven(100 * stats.total_margin, n),
         games_analyzed     |-> n]

\* "for team_name, stats in team_stats.items()" (lines 215-238).
RECURSIVE PowerEntries(_)
PowerEntries(team_stats) ==
    IF team_stats = <<>> THEN <<>>
    ELSE LET item == Head(team_stats)
             rest == PowerEntries(Tail(team_stats))
         IN  IF item[2].scores = <<>> THEN rest
             ELSE <<PowerEntry(item[1], item[2])>> \o rest

\* Mutant of RankedDescending: the entries in the order of team_stats.
RankedAsCollected(entries) == entries

\* sorted(power_rankings, key=power_rating, reverse=True): stable, so entries of
\* equal rating keep their order.
RECURSIVE RankedDescending(_)
RankedDescending(entries) ==
    IF entries = <<>> THEN <<>>
    ELSE LET front == RankedDescending(SubSeq(entries, 1, Len(entries) - 1))
             e     == entries[Len(entries)]
         IN  SelectSeq(front, LAMBDA x : x.power_rating >= e.power_rating)
                \o <<e>>
                \o SelectSeq(front, LAMBDA x : x.power_rating < e.power_rating)

InitPower ==
    /\ weekly_scoreboards = <<>>
    /\ analyzer = None
    /\ skins = None
    /\ survivor = None
    /\ power = None
    /\ record = None
    /\ IdleMatchup
    /\ IdleRoster
    /\ IdleLater

\* One iteration of the loop of get_season_results: add_week of the next fetched week.
PowerAddWeek ==
    /\ power = None
    /\ \E week \in 1..MaxPowerWeek : \E wires \in PowerPayloads :
          /\ \A stored \in StoredWeeks : stored < week
          /\ weekly_scoreboards' = DictSet(weekly_scoreboards, week, Scoreboard(week, wires))
    /\ UNCHANGED <<analyzer, skins, survivor, power, record>>

\* calculate_power_rankings(season_results, weeks_to_analyze): lines 179-183.
PowerCall ==
    /\ power = None
    /\ \E given \in WeeksToAnalyzeArgs :
          power' = [pc               |-> "collect",
                    given            |-> given,
                    weeks_to_analyze |-> IF given.is_none THEN DefaultWindow(Sorted(Keys))
                                         ELSE given.weeks,
                    pos              |-> 0,
                    team_stats       |-> <<>>,
                    power_rankings   |-> <<>>,
                    result           |-> <<>>]
    /\ UNCHANGED <<weekly_scoreboards, analyzer, skins, survivor, record>>

\* One iteration of the loop over weeks_to_analyze (lines 186-209).
PowerWeek ==
    /\ power # None
    /\ power.pc = "collect"
    /\ power.pos < Len(power.weeks_to_analyze)
    /\ LET week == power.weeks_to_analyze[power.pos + 1]
       IN  IF week \notin StoredWeeks
           THEN power' = [power EXCEPT !.pos = @ + 1]
           ELSE power' = [power EXCEPT
                   !.pos = @ + 1,
                   !.team_stats = CollectMatchups(@, ScoreboardOf(week).matchups)]
    /\ UNCHANGED <<weekly_scoreboards, analyzer, skins, survivor, record>>

\* The ratings of the collected teams (lines 212-238).
PowerRate ==
    /\ power # None
    /\ power.pc = "collect"
    /\ power.pos = Len(power.weeks_to_analyze)
    /\ power' = [power EXCEPT !.pc = "sort",
                              !.power_rankings = PowerEntries(power.team_stats)]
    /\ UNCHANGED <<weekly_scoreboards, analyzer, skins, survivor, record>>

\* return sorted(...) (line 241).
PowerReturn ==
    /\ power # None
    /\ power.pc = "sort"
    /\ power' = [power EXCEPT !.pc = "done",
                              !.result = RankedDescending(power.power_rankings)]
    /\ UNCHANGED <<weekly_scoreboards, analyzer, skins, survivor, record>>

NextPower ==
    \/ PowerAddWeek /\ UNCHANGED parserVars /\ UNCHANGED laterVars
    \/ PowerCall /\ UNCHANGED parserVars /\ UNCHANGED laterVars
    \/ PowerWeek /\ UNCHANGED parserVars /\ UNCHANGED laterVars
    \/ PowerRate /\ UNCHANGED parserVars /\ UNCHANGED laterVars
    \/ PowerReturn /\ UNCHANGED parserVars /\ UNCHANGED laterVars

SpecPower == InitPower /\ [][NextPower]_vars

\* The stored weeks among weeks_to_analyze.
AnalysedWeeks ==
    {power.weeks_to_analyze[i] : i \in 1..Len(power.weeks_to_analyze)} \cap StoredWeeks

\* <<points, opponent points>> of the named team in each of the matchups it plays in.
GamesIn(matchups, name) ==
    LET played == SelectSeq(matchups, LAMBDA m : name \in {m.team1.team_name, m.team2.team_name})
    IN  [i \in 1..Len(played) |->
            IF played[i].team1.team_name = name
            THEN <<played[i].team1.points, played[i].team2.points>>
            ELSE <<played[i].team2.points, played[i].team1.points>>]

\* The games of the named team over a list of weeks, a week counting as often as it is listed.
RECURSIVE AnalysedGames(_, _)
AnalysedGames(weeks, name) ==
    IF weeks = <<>> THEN <<>>
    ELSE (IF Head(weeks) \in StoredWeeks
          THEN GamesIn(ScoreboardOf(Head(weeks)).matchups, name) ELSE <<>>)
            \o AnalysedGames(Tail(weeks), name)

\* 10 n times the claimed rating of one game list: 0.4 avg_score
\* + 0.3 (avg_score - avg_opponent_score) + 0.2 win_percentage 100 + 0.1 avg_margin.
RECURSIVE RatingNumerator(_)
RatingNumerator(games) ==
    IF games = <<>> THEN 0
    ELSE LET own == Head(games)[1]
             opp == Head(games)[2]
         IN  4 * own + 3 * (own - opp) + (IF own > opp THEN 200 ELSE 0) + (own - opp)
                + RatingNumerator(Tail(games))

\* The claimed rating of the named team, in hundredths.
ClaimedRating(name) ==
    LET games == AnalysedGames(power.weeks_to_analyze, name)
    IN  RoundHalfEven(10 * RatingNumerator(games), Len(games))

\* Every analysed matchup is between a and b, and a outscores b in each of them.
TwoTeamWindow(a, b) ==
    /\ a # b
    /\ AnalysedWeeks # {}
    /\ \A week \in AnalysedWeeks :
          LET matchups == ScoreboardOf(week).matchups
          IN  /\ matchups # <<>>
              /\ \A j \in 1..Len(matchups) :
                    \/ /\ matchups[j].team1.team_name = a
                       /\ matchups[j].team2.team_name = b
                       /\ matchups[j].team1.points > matchups[j].team2.points
                    \/ /\ matchups[j].team1.team_name = b
                       /\ matchups[j].team2.team_name = a
                       /\ matchups[j].team2.points > matchups[j].team1.points

(***************************************************************************)
(* C9: the returned entries are in non-increasing power_rating order, and  *)
(* for a two-team window in which team A outscores team B in every         *)
(* analysed matchup the result is A's entry followed by B's, each rating   *)
(* being 0.4 avg_score + 0.3 (avg_score - avg_opponent_score)              *)
(* + 0.2 win_percentage 100 + 0.1 avg_margin over the analysed matchups,   *)
(* A's strictly greater than B's.                                          *)
(***************************************************************************)
C9_RankedByRating ==
    (power # None /\ power.pc = "done") =>
        /\ \A i \in 1..(Len(power.result) - 1) :
              power.result[i].power_rating >= power.result[i + 1].power_rating
        /\ \A a, b \in {"A", "B", "C", "D"} :
              TwoTeamWindow(a, b) =>
                  /\ Len(power.result) = 2
                  /\ power.result[1].team_name = a
                  /\ power.result[2].team_name = b
                  /\ power.result[1].power_rating = ClaimedRating(a)
                  /\ power.result[2].power_rating = ClaimedRating(b)
                  /\ power.result[1].power_rating > power.result[2].power_rating

\* A finished default-window call on a season of more than four weeks in which the
\* week outside the window went to the lower-rated team, whose stats were collected first.
C9_Witness ==
    /\ power # None
    /\ power.pc = "done"
    /\ power.given.is_none
    /\ Len(weekly_scoreboards) > WindowWeeks
    /\ \E a, b \in {"A", "B"} :
          /\ TwoTeamWindow(a, b)
          /\ power.team_stats[1][1] = b
          /\ Len(AnalysedGames(power.weeks_to_analyze, a)) = WindowWeeks
          /\ \E week \in StoredWeeks \ AnalysedWeeks :
                \E g \in {GamesIn(ScoreboardOf(week).matchups, a)} :
                    g # <<>> /\ g[1][1] < g[1][2]

(***************************************************************************)
(* SeasonResults.get_team_record.  The scoreboards are what                *)
(* WeeklyScoreboard.from_api_data builds: one Matchup per well-formed      *)
(* entry of the payload, in payload order, a team repeated in two entries  *)
(* of one week included.                                                   *)
(***************************************************************************)
RecordPayloads ==
    {<<WireFinal("k1", "5", "k2", "2")>>,
     <<[WireFinal("k1", "5", "k2", "2") EXCEPT !.status = "midevent"]>>,
     <<[WireFinal("k1", "5", "k2", "2") EXCEPT !.is_tied = "int1"]>>,
     <<WireFinal("k1", "2", "k2", "2")>>,
     <<[WireFinal("k1", "5", "k2", "2") EXCEPT !.winner_team_key = "absent"]>>,
     <<WireFinal("k3", "3", "k4", "1")>>,
     <<[WireFinal("k1", "5", "k3", "2") EXCEPT !.status = "midevent"],
       WireFinal("k1", "3", "k2", "1")>>}

RecordTeamKeys == {"k1", "k2", "k3"}

\* WeeklyScoreboard.get_matchup_by_team: the first matchup with the team, or None.
GetMatchupByTeam(scoreboard, team_key) ==
    LET with == SelectSeq(scoreboard.matchups,
                          LAMBDA m : m.team1.team_key = team_key \/ m.team2.team_key = team_key)
    IN  IF with = <<>> THEN None ELSE Head(with)

\* Mutant of CountWeek: a matchup that is not final counts as a loss.
CountWeekUnfinishedAsLoss(counts, scoreboard, team_key) ==
    LET found == GetMatchupByTeam(scoreboard, team_key)
    IN  IF found = None THEN counts
        ELSE IF found.status = "postevent" /\ found.is_tied
        THEN [counts EXCEPT !.ties = @ + 1]
        ELSE IF found.status = "postevent" /\ found.winner_team_key = team_key
        THEN [counts EXCEPT !.wins = @ + 1]
        ELSE [counts EXCEPT !.losses = @ + 1]

\* The body of the loop of get_team_record (lines 308-315).
CountWeek(counts, scoreboard, team_key) ==
    LET found == GetMatchupByTeam(scoreboard, team_key)
    IN  IF found = None THEN counts
        ELSE IF found.status # "postevent" THEN counts
        ELSE IF found.is_tied THEN [counts EXCEPT !.ties = @ + 1]
        ELSE IF found.winner_team_key = team_key THEN [counts EXCEPT !.wins = @ + 1]
        ELSE [counts EXCEPT !.losses = @ + 1]

\* get_team_record over the items of weekly_scoreboards, in dict order.
RECURSIVE GetTeamRecord(_, _)
GetTeamRecord(items, team_key) ==
    IF items = <<>> THEN [wins |-> 0, losses |-> 0, ties |-> 0]
    ELSE CountWeek(GetTeamRecord(SubSeq(items, 1, Len(items) - 1), team_key),
                   items[Len(items)][2], team_key)

InitRecord ==
    /\ weekly_scoreboards = <<>>
    /\ analyzer = None
    /\ skins = None
    /\ survivor = None
    /\ power = None
    /\ record = None
    /\ IdleMatchup
    /\ IdleRoster
    /\ IdleLater

\* season_results.add_week(scoreboard), before the record is asked for.
RecordAddWeek ==
    /\ record = None
    /\ AddWeek(RecordPayloads)
    /\ UNCHANGED <<analyzer, skins, survivor, power, record>>

\* season_results.get_team_record(team_key)
RecordCall ==
    /\ record = None
    /\ \E team_key \in RecordTeamKeys :
          record' = [team_key |-> team_key,
                     result   |-> GetTeamRecord(weekly_scoreboards, team_key)]
    /\ UNCHANGED <<weekly_scoreboards, analyzer, skins, survivor, power>>

NextRecord ==
    \/ RecordAddWeek /\ UNCHANGED parserVars /\ UNCHANGED laterVars
    \/ RecordCall /\ UNCHANGED parserVars /\ UNCHANGED laterVars

SpecRecord == InitRecord /\ [][NextRecord]_vars

\* The matchups of a stored week that the team plays in and that are final.
FinalMatchupsOf(week, team_key) ==
    SelectSeq(ScoreboardOf(week).matchups,
              LAMBDA m : /\ m.team1.team_key = team_key \/ m.team2.team_key = team_key
                         /\ m.status = "postevent")

\* The stored weeks in which the team has a matchup with status postevent.
FinalWeeksOf(team_key) == {week \in StoredWeeks : FinalMatchupsOf(week, team_key) # <<>>}

\* No stored scoreboard holds a team in two of its matchups.
TeamsPlayOncePerWeek ==
    \A week \in StoredWeeks : \A i, j \in 1..Len(ScoreboardOf(week).matchups) :
        i # j => {ScoreboardOf(week).matchups[i].team1.team_key,
                  ScoreboardOf(week).matchups[i].team2.team_key}
                    \cap {ScoreboardOf(week).matchups[j].team1.team_key,
                          ScoreboardOf(week).matchups[j].team2.team_key} = {}

\* The counts the record should hold, from the first final matchup of each week.
RecordCountsAreRight ==
    LET key   == record.team_key
        final == FinalWeeksOf(key)
        tied  == {week \in final : FinalMatchupsOf(week, key)[1].is_tied}
        won   == {week \in final \ tied :
                     FinalMatchupsOf(week, key)[1].winner_team_key = key}
    IN  /\ record.result.wins + record.result.losses + record.result.ties
              = Cardinality(final)
        /\ record.result.ties = Cardinality(tied)
        /\ record.result.wins = Cardinality(won)
        /\ record.result.losses = Cardinality(final \ (tied \cup won))

(***************************************************************************)
(* C10: get_team_record(team_key) returns wins + losses + ties equal to    *)
(* the number of stored weeks in which the team has a matchup with status  *)
(* postevent; weeks that are not stored and matchups that are not          *)
(* postevent add nothing; a tied matchup adds one tie regardless of        *)
(* winner_team_key, and a non-tied one a win exactly when winner_team_key  *)
(* equals team_key, otherwise a loss.                                      *)
(***************************************************************************)
C10_TeamRecord == record # None => RecordCountsAreRight

\* The same counts, over the seasons in which every team plays once a week.
TeamRecordWhenTeamsPlayOnce ==
    (record # None /\ TeamsPlayOncePerWeek) => RecordCountsAreRight

\* A record over three such weeks with a win, a tie flagged by the API and a loss
\* for want of a winner key.
TeamRecordWhenTeamsPlayOnce_Witness ==
    /\ record # None
    /\ TeamsPlayOncePerWeek
    /\ record.result.wins > 0
    /\ record.result.ties > 0
    /\ record.result.losses > 0

(***************************************************************************)
(* DetailedMatchup.create(team1_roster, team2_roster, week).  The two      *)
(* rosters are built by TeamRoster.from_api_data.  "for pos in             *)
(* all_positions" walks a set of strings: its order is that of the string  *)
(* hashes, which CPython seeds afresh in every process, so the walk can    *)
(* take any order.                                                         *)
(***************************************************************************)
MaxOpponentPlayers == 2

DetailedWirePlayers ==
    {[shape |-> "ok", position |-> "RB", total |-> "10"],
     [shape |-> "ok", position |-> "RB", total |-> "5"],
     [shape |-> "ok", position |-> "QB", total |-> "8"],
     [shape |-> "ok", position |-> "W/R", total |-> "5"],
     [shape |-> "ok", position |-> "LB", total |-> "8"],
     [shape |-> "ok", position |-> "BN", total |-> "8"]}

\* The players of the second roster.
OpponentWirePlayers ==
    {[shape |-> "ok", position |-> "RB", total |-> "5"],
     [shape |-> "ok", position |-> "QB", total |-> "8"],
     [shape |-> "ok", position |-> "LB", total |-> "8"],
     [shape |-> "ok", position |-> "BN", total |-> "8"]}

\* The rosters of up to n of the given players, in every order.
WireRosters(wire_players, n) ==
    UNION {{TeamRosterFromApiData(
                [shape |-> "list",
                 items |-> [i \in 1..k |-> [kind |-> "player", player |-> players[i]]]]) :
              players \in [1..k -> wire_players]} : k \in 0..n}

\* -a on floats: a negative value is held with a negative hi and lo in 0..Limb-1.
FNeg(a) == IF a[2] = 0 THEN <<-a[1], 0>> ELSE <<-a[1] - 1, Limb - a[2]>>

\* Python's a + b on floats of either sign: the exact sum, its magnitude rounded
\* to the nearest binary64 value.
FAddSigned(a, b) ==
    LET exact == ExactAdd(a, b)
    IN  IF exact[1] >= 0 THEN RoundB64(exact) ELSE FNeg(RoundB64(FNeg(exact)))

\* Python's a - b on floats.
FSub(a, b) == FAddSigned(a, FNeg(b))

\* Python's sum(...) over floats of either sign: left to right, starting from 0.
RECURSIVE FSumSigned(_)
FSumSigned(values) ==
    IF values = <<>> THEN FZero
    ELSE FAddSigned(FSumSigned(SubSeq(values, 1, Len(values) - 1)), values[Len(values)])

FLess(a, b) == a[1] < b[1] \/ (a[1] = b[1] /\ a[2] < b[2])

\* PositionMatchup.points_difference
PointsDifference(pm) ==
    LET team1_points == IF pm.team1_player # None THEN pm.team1_player.points ELSE FZero
        team2_points == IF pm.team2_player # None THEN pm.team2_player.points ELSE FZero
    IN  FSub(team1_points, team2_points)

position_order == <<"QB", "RB", "WR", "TE", "W/R/T", "K", "DEF", "IR">>

InPositionOrder(pos) == \E i \in 1..Len(position_order) : position_order[i] = pos

\* team_positions.get(pos, []): the starters at the position, in roster order.
PlayersAt(starters, pos) == SelectSeq(starters, LAMBDA p : p.selected_position = pos)

\* set(team1_positions.keys()) | set(team2_positions.keys())
AllPositions(starters1, starters2) ==
    {starters1[i].selected_position : i \in 1..Len(starters1)}
        \cup {starters2[i].selected_position : i \in 1..Len(starters2)}

\* Mutant of SlotsAt: team 1 alone decides the number of entries.
SlotsAtTeam1(starters1, starters2, pos) == Len(PlayersAt(starters1, pos))

\* max(len(team1_positions.get(pos, [])), len(team2_positions.get(pos, [])))
SlotsAt(starters1, starters2, pos) ==
    Max2(Len(PlayersAt(starters1, pos)), Len(PlayersAt(starters2, pos)))

\* The sequences that list each element of the set once.
Orderings(set) ==
    {order \in [1..Cardinality(set) -> set] :
        \A i, j \in 1..Cardinality(set) : i # j => order[i] # order[j]}

\* sorted_positions.extend([pos] * slots) for each pos of the walk that passes the test.
RECURSIVE Extended(_, _, _, _)
Extended(walk, standard, starters1, starters2) ==
    IF walk = <<>> THEN <<>>
    ELSE LET pos  == Head(walk)
             rest == Extended(Tail(walk), standard, starters1, starters2)
             here == pos \in AllPositions(starters1, starters2)
                       /\ InPositionOrder(pos) = standard
         IN  IF here
             THEN [i \in 1..SlotsAt(starters1, starters2, pos) |-> pos] \o rest
             ELSE rest

\* sorted_positions (lines 76-91), the set being walked in the given order.
SortedPositions(starters1, starters2, walk) ==
    Extended(position_order, TRUE, starters1, starters2)
        \o Extended(walk, FALSE, starters1, starters2)

\* players[count] if count < len(players) else None
PlayerAtCount(players, count) == IF count < Len(players) THEN players[count + 1] ELSE None

\* The loop over sorted_positions (lines 94-111).
StarterMatchups(starters1, starters2, sorted_positions) ==
    [k \in 1..Len(sorted_positions) |->
        LET pos   == sorted_positions[k]
            count == Cardinality({i \in 1..(k - 1) : sorted_positions[i] = pos})
        IN  [position     |-> pos,
             team1_player |-> PlayerAtCount(PlayersAt(starters1, pos), count),
             team2_player |-> PlayerAtCount(PlayersAt(starters2, pos), count)]]

\* sorted(bench, key=points, reverse=True): stable.
RECURSIVE BenchByPoints(_)
BenchByPoints(bench) ==
    IF bench = <<>> THEN <<>>
    ELSE LET front == BenchByPoints(SubSeq(bench, 1, Len(bench) - 1))
             p     == bench[Len(bench)]
         IN  SelectSeq(front, LAMBDA x : ~FLess(x.points, p.points))
                \o <<p>>
                \o SelectSeq(front, LAMBDA x : FLess(x.points, p.points))

\* Mutant of BenchMatchups: the loop stops at the end of the shorter bench.
BenchMatchupsOfShorter(bench1, bench2) ==
    LET team1_bench == BenchByPoints(bench1)
        team2_bench == BenchByPoints(bench2)
        shorter     == IF Len(bench1) <= Len(bench2) THEN Len(bench1) ELSE Len(bench2)
    IN  [i \in 1..shorter |->
            [position     |-> "BN",
             team1_player |-> PlayerAtCount(team1_bench, i - 1),
             team2_player |-> PlayerAtCount(team2_bench, i - 1)]]

\* The loop over range(max_bench) (lines 118-124).
BenchMatchups(bench1, bench2) ==
    LET team1_bench == BenchByPoints(bench1)
        team2_bench == BenchByPoints(bench2)
    IN  [i \in 1..Max2(Len(team1_bench), Len(team2_bench)) |->
            [position     |-> "BN",
             team1_player |-> PlayerAtCount(team1_bench, i - 1),
             team2_player |-> PlayerAtCount(team2_bench, i - 1)]]

InitDetailed ==
    /\ IdleMatchup
    /\ IdleRoster
    /\ IdleSeason
    /\ IdleLater

\* The two rosters are parsed (TeamRoster.from_api_data, twice).
DetailedRosters ==
    /\ detailed = None
    /\ \E team1_roster \in WireRosters(DetailedWirePlayers, MaxPlayers),
          team2_roster \in WireRosters(OpponentWirePlayers, MaxOpponentPlayers) :
          detailed' = [pc               |-> "call",
                       team1_roster     |-> team1_roster,
                       team2_roster     |-> team2_roster,
                       starter_matchups |-> <<>>,
                       bench_matchups   |-> <<>>]

\* DetailedMatchup.create(team1_roster, team2_roster, week)
DetailedCreate ==
    /\ detailed # None
    /\ detailed.pc = "call"
    /\ LET starters1 == detailed.team1_roster.starters
           starters2 == detailed.team2_roster.starters
           \* the codes of all_positions that pass "pos not in position_order"
           others    == {pos \in AllPositions(starters1, starters2) : ~InPositionOrder(pos)}
       IN  \E walk \in Orderings(others) :
              detailed' = [detailed EXCEPT
                  !.pc = "done",
                  !.starter_matchups =
                      StarterMatchups(starters1, starters2,
                                      SortedPositions(starters1, starters2, walk)),
                  !.bench_matchups =
                      BenchMatchups(detailed.team1_roster.bench,
                                    detailed.team2_roster.bench)]

NextDetailed ==
    \/ DetailedRosters /\ UNCHANGED exceptDetailed
    \/ DetailedCreate /\ UNCHANGED exceptDetailed

SpecDetailed == InitDetailed /\ [][NextDetailed]_vars

\* The positions of the entries of starter_matchups, in order.
StarterPositions ==
    [k \in 1..Len(detailed.starter_matchups) |-> detailed.starter_matchups[k].position]

\* The entries of starter_matchups at one position, in order.
EntriesAt(pos) == SelectSeq(detailed.starter_matchups, LAMBDA pm : pm.position = pos)

\* The starters of a roster at one position, in roster order.
StartersAt(team_roster, pos) ==
    SelectSeq(team_roster.starters, LAMBDA p : p.selected_position = pos)

\* The i-th of the players, or None past the end; its points, None counting as 0.0.
Occupant(players, i) == IF i <= Len(players) THEN players[i] ELSE None

OccupantPoints(players, i) == IF i <= Len(players) THEN players[i].points ELSE FZero

(***************************************************************************)
(* C11: for every selected position the number of starter PositionMatchups *)
(* is the larger of the two teams' starter counts at that position; the    *)
(* i-th of them pairs team1's i-th starter there with team2's i-th, in     *)
(* roster order, with None on the side that has fewer than i, and its      *)
(* points_difference is team1 points minus team2 points, None counting 0.  *)
(***************************************************************************)
C11_PairedByCount ==
    (detailed # None /\ detailed.pc = "done") =>
        \A pos \in {"QB", "RB", "W/R", "LB", "BN", "IR"} :
            LET entries == EntriesAt(pos)
                mine    == StartersAt(detailed.team1_roster, pos)
                theirs  == StartersAt(detailed.team2_roster, pos)
            IN  /\ Len(entries) = (IF Len(mine) >= Len(theirs) THEN Len(mine) ELSE Len(theirs))
                /\ \A i \in 1..Len(entries) :
                      /\ entries[i].team1_player = Occupant(mine, i)
                      /\ entries[i].team2_player = Occupant(theirs, i)
                      /\ PointsDifference(entries[i])
                            = FSub(OccupantPoints(mine, i), OccupantPoints(theirs, i))

\* Two RB starters scoring 10 and 5 against one RB starter: two RB entries, the
\* second with no team2 player and a points_difference of +5.
C11_Witness ==
    /\ detailed # None
    /\ detailed.pc = "done"
    /\ Len(EntriesAt("RB")) = 2
    /\ Len(StartersAt(detailed.team2_roster, "RB")) = 1
    /\ EntriesAt("RB")[1].team1_player.points = SafeFloat("10")
    /\ EntriesAt("RB")[2].team1_player.points = SafeFloat("5")
    /\ EntriesAt("RB")[2].team2_player = None
    /\ PointsDifference(EntriesAt("RB")[2]) = SafeFloat("5")

\* The codes of the starters of both rosters, team1's first, in first-seen order.
RECURSIVE FirstSeen(_)
FirstSeen(codes) ==
    IF codes = <<>> THEN <<>>
    ELSE LET front == FirstSeen(SubSeq(codes, 1, Len(codes) - 1))
             last  == codes[Len(codes)]
         IN  IF \E i \in 1..Len(front) : front[i] = last THEN front ELSE Append(front, last)

StarterCodes ==
    [i \in 1..Len(detailed.team1_roster.starters) |->
        detailed.team1_roster.starters[i].selected_position]
    \o [i \in 1..Len(detailed.team2_roster.starters) |->
        detailed.team2_roster.starters[i].selected_position]

\* Each code of the list, repeated as often as starter_matchups holds it.
RECURSIVE Repeated(_)
Repeated(codes) ==
    IF codes = <<>> THEN <<>>
    ELSE [i \in 1..Len(EntriesAt(Head(codes))) |-> Head(codes)] \o Repeated(Tail(codes))

(***************************************************************************)
(* C12: starter_matchups lists the positions in the fixed order QB, RB,    *)
(* WR, TE, W/R/T, K, DEF, IR, the entries of one position contiguous,      *)
(* followed by every unrecognized code in the order in which the codes     *)
(* were first seen among the starters: the same order for every run on the *)
(* same two rosters.                                                       *)
(***************************************************************************)
C12_PositionOrder ==
    (detailed # None /\ detailed.pc = "done") =>
        StarterPositions
            = Repeated(position_order)
                \o Repeated(SelectSeq(FirstSeen(StarterCodes),
                                      LAMBDA code : ~InPositionOrder(code)))

\* The part of C12 about the recognized positions: they come first, in the fixed
\* order, and the entries of every position are contiguous.
StandardPositionsFirst ==
    (detailed # None /\ detailed.pc = "done") =>
        /\ \A i, j \in 1..Len(StarterPositions) :
              (i < j /\ StarterPositions[i] = StarterPositions[j])
                  => \A k \in i..j : StarterPositions[k] = StarterPositions[i]
        /\ SelectSeq(StarterPositions, InPositionOrder) = Repeated(position_order)
        /\ \A i, j \in 1..Len(StarterPositions) :
              (InPositionOrder(StarterPositions[j]) /\ ~InPositionOrder(StarterPositions[i]))
                  => j < i

(***************************************************************************)
(* WeeklyScoreboard.from_api_data(data, league_key, week).  matchups_data  *)
(* is the "matchups" container: a mapping (held as a sequence of           *)
(* <<key, value>>, "count" among the keys) or, malformed, a list.  An      *)
(* entry is a mapping with a "matchup" key (kind "matchup"), a mapping     *)
(* whose "matchup" value is not a mapping (kind "bad_matchup": .get on it  *)
(* raises AttributeError), or anything else (kind "other").                *)
(***************************************************************************)
MaxEntries == 3

ShortTeam == [shape |-> "short", team_key |-> "", name |-> "", total |-> "absent"]

\* float(total) raises ValueError on the text "abc".
TeamScoreRaises(data) == data.shape = "ok" /\ data.total = "abc"

\* Matchup.from_api_data raises for this "matchup" payload.
MatchupRaises(data) == TeamScoreRaises(data.team1) \/ TeamScoreRaises(data.team2)

WireEntries ==
    {[kind |-> "matchup", matchup |-> m] :
        m \in {WireFinal("k1", "5", "k2", "2"),
               WireFinal("k1", "3", "k3", "1"),
               WireFinal("k3", "2", "k4", "3"),
               [WireFinal("k3", "2", "k4", "3") EXCEPT !.team1.total = "abc"],
               [WireFinal("k1", "5", "k2", "2") EXCEPT !.team1 = ShortTeam,
                                                       !.team2 = ShortTeam,
                                                       !.winner_team_key = "absent"],
               [WireFinal("k3", "2", "k4", "3") EXCEPT !.team2 = ShortTeam]}}
    \cup {[kind |-> "bad_matchup", matchup |-> None], [kind |-> "other", matchup |-> None]}

\* The items of a matchups mapping: up to MaxEntries entries under numeric keys, then "count".
WireMatchupsData ==
    UNION {{[i \in 1..(n + 1) |->
                IF i <= n THEN <<"numeric", entries[i]>> ELSE <<"count", None>>] :
              entries \in [1..n -> WireEntries]} : n \in 0..MaxEntries}

\* The loop over matchups_data.items(): one Matchup per entry that parses.
RECURSIVE ParsedEntries(_, _)
ParsedEntries(items, week) ==
    IF items = <<>> THEN <<>>
    ELSE LET key   == Head(items)[1]
             entry == Head(items)[2]
             rest  == ParsedEntries(Tail(items), week)
         IN  IF key = "count" THEN rest
             ELSE IF entry.kind = "other" THEN rest
             ELSE IF entry.kind = "bad_matchup" THEN rest
             ELSE IF MatchupRaises(entry.matchup) THEN rest
             ELSE <<MatchupFromApiData(entry.matchup, week)>> \o rest

\* The week metadata step (lines 222-233) raises: matchups_data is a non-empty list
\* (no .keys()), or the "matchup" value of the first entry is not a mapping.
MetadataRaises(shape, items) ==
    LET entries == SelectSeq(items, LAMBDA item : item[1] # "count")
    IN  /\ items # <<>>
        /\ \/ shape = "list"
           \/ entries # <<>> /\ entries[1][2].kind = "bad_matchup"

WeeklyScoreboardFromApiData(shape, items, week) ==
    IF MetadataRaises(shape, items) THEN [raised |-> TRUE, week |-> week, matchups |-> <<>>]
    ELSE [raised   |-> FALSE,
          week     |-> week,
          matchups |-> IF shape = "dict" THEN ParsedEntries(items, week) ELSE <<>>]

InitScoreboard ==
    /\ IdleMatchup
    /\ IdleRoster
    /\ IdleSeason
    /\ IdleLater

\* The API response arrives.
ScoreboardPayload ==
    /\ weekly_scoreboard = None
    /\ \E shape \in {"dict", "list"}, items \in WireMatchupsData, week \in 1..MaxWeek :
          weekly_scoreboard' = [pc |-> "call", shape |-> shape, items |-> items, week |-> week,
                         result |-> None]

\* WeeklyScoreboard.from_api_data(data, league_key, week)
ScoreboardParse ==
    /\ weekly_scoreboard # None
    /\ weekly_scoreboard.pc = "call"
    /\ weekly_scoreboard' = [weekly_scoreboard EXCEPT
           !.pc = "done",
           !.result = WeeklyScoreboardFromApiData(weekly_scoreboard.shape, weekly_scoreboard.items,
                                                  weekly_scoreboard.week)]

NextScoreboard ==
    \/ ScoreboardPayload /\ UNCHANGED exceptScoreboard
    \/ ScoreboardParse /\ UNCHANGED exceptScoreboard

SpecScoreboard == InitScoreboard /\ [][NextScoreboard]_vars

\* from_api_data has returned a WeeklyScoreboard.
ScoreboardReturned ==
    /\ weekly_scoreboard # None
    /\ weekly_scoreboard.pc = "done"
    /\ ~weekly_scoreboard.result.raised

TeamKeysOf(m) == {m.team1.team_key, m.team2.team_key} \ {""}

\* The entries of the payload, the "count" key left out.
PayloadEntries ==
    LET entries == SelectSeq(weekly_scoreboard.items, LAMBDA item : item[1] # "count")
    IN  [i \in 1..Len(entries) |-> entries[i][2]]

\* The two-team array is missing, or a team array has fewer than two elements.
Malformed(entry) ==
    /\ entry.kind = "matchup"
    /\ entry.matchup.team1.shape = "short" \/ entry.matchup.team2.shape = "short"

WellFormed(entry) ==
    /\ entry.kind = "matchup"
    /\ entry.matchup.team1.shape = "ok"
    /\ entry.matchup.team2.shape = "ok"
    /\ ~MatchupRaises(entry.matchup)

\* C13: in every WeeklyScoreboard produced by from_api_data, each team key is in at
\* most one Matchup of the week, whatever the payload contains.
C13_TeamInOneMatchup ==
    ScoreboardReturned =>
        LET matchups == weekly_scoreboard.result.matchups
        IN  \A i, j \in 1..Len(matchups) :
                i < j => TeamKeysOf(matchups[i]) \cap TeamKeysOf(matchups[j]) = {}

\* C14: when one entry of the matchups container is malformed and the others are
\* well formed, from_api_data returns normally and matchups holds exactly the
\* Matchups of the well-formed entries, in order: the malformed entry is omitted and
\* never appears as a Matchup with empty team keys and zero points.
C14_MalformedEntrySkipped ==
    (/\ weekly_scoreboard # None
     /\ weekly_scoreboard.pc = "done"
     /\ weekly_scoreboard.shape = "dict"
     /\ Cardinality({i \in DOMAIN PayloadEntries : Malformed(PayloadEntries[i])}) = 1
     /\ \A i \in DOMAIN PayloadEntries :
            Malformed(PayloadEntries[i]) \/ WellFormed(PayloadEntries[i]))
    => LET good == SelectSeq(PayloadEntries, WellFormed)
       IN  /\ ~weekly_scoreboard.result.raised
           /\ weekly_scoreboard.result.matchups =
                  [i \in 1..Len(good) |->
                      MatchupFromApiData(good[i].matchup, weekly_scoreboard.week)]

\* What the loop does keep to: every well-formed entry of a mapping is present, in
\* payload order, whenever from_api_data returns.
WellFormedEntriesKept ==
    (ScoreboardReturned /\ weekly_scoreboard.shape = "dict")
    => LET good == SelectSeq(PayloadEntries, WellFormed)
           kept == SelectSeq(weekly_scoreboard.result.matchups,
                             LAMBDA m : m.team1.team_key # "" /\ m.team2.team_key # "")
       IN  kept = [i \in 1..Len(good) |->
                      MatchupFromApiData(good[i].matchup, weekly_scoreboard.week)]

(***************************************************************************)
(* extract_list_items(data, item_key).  A JSON value is held as            *)
(* [shape, items, id]: a mapping (shape "dict") has its items as           *)
(* <<key, value>> in insertion order, a list (shape "list") as <<"", v>>,  *)
(* a string (shape "str") has its text in id, and None has shape "none".   *)
(***************************************************************************)
MaxItems == 3

NoneValue == [shape |-> "none", items |-> <<>>, id |-> ""]

Str(text) == [shape |-> "str", items |-> <<>>, id |-> text]

Dict(items) == [shape |-> "dict", items |-> items, id |-> ""]

List(values) == [shape |-> "list", items |-> [i \in 1..Len(values) |-> <<"", values[i]>>], id |-> ""]

item_key == "player"

\* key in data
HasItem(data, key) == data.shape = "dict" /\ \E i \in DOMAIN data.items : data.items[i][1] = key

\* data[key]
GetItem(data, key) ==
    data.items[CHOOSE i \in DOMAIN data.items : data.items[i][1] = key][2]

\* not data
Falsy(data) ==
    \/ data.shape = "none"
    \/ data.shape \in {"dict", "list"} /\ data.items = <<>>
    \/ data.shape = "str" /\ data.id = ""

ExtractListItems(data, key) ==
    IF Falsy(data) THEN <<>>
    ELSE IF data.shape = "dict"
    THEN IF HasItem(data, key) THEN <<GetItem(data, key)>> ELSE <<data>>
    ELSE IF data.shape = "list"
    THEN [i \in DOMAIN data.items |->
             LET item == data.items[i][2]
             IN  IF HasItem(item, key) THEN GetItem(item, key) ELSE item]
    ELSE <<>>

\* The inner payload of one item, and the item as the wire wraps it.
Payload(id) == Dict(<<<<"player_key", Str(id)>>>>)

Wrapped(id) == Dict(<<<<item_key, Payload(id)>>>>)

PayloadIds == {"p1", "p2", "p3"}

IndexKeys == <<"0", "1", "2", "3", "4">>

\* The sequences that hold each element of a set once.
SeqsOf(set) ==
    {order \in [1..Cardinality(set) -> set] : \A e \in set : \E i \in DOMAIN order : order[i] = e}

\* The wire forms of the items ids: a list of wrapped items, a mapping keyed by the
\* string-encoded indices with a sibling "count" (in any insertion order), and, for
\* one item, the single mapping.
WireFormsOf(ids) ==
    LET n == Len(ids)
    IN  {List([i \in 1..n |-> Wrapped(ids[i])])}
        \cup {Dict([k \in 1..(n + 1) |->
                      IF order[k] = n + 1 THEN <<"count", Str(IndexKeys[n + 1])>>
                      ELSE <<IndexKeys[order[k]], Wrapped(ids[order[k]])>>]) :
                order \in SeqsOf(1..(n + 1))}
        \cup (IF n = 1 THEN {Wrapped(ids[1])} ELSE {})

WireLists ==
    {NoneValue, List(<<>>), Dict(<<>>), Str("")}
    \cup UNION {UNION {WireFormsOf(ids) : ids \in [1..n -> PayloadIds]} : n \in 1..MaxItems}

InitExtract ==
    /\ IdleMatchup
    /\ IdleRoster
    /\ IdleSeason
    /\ IdleLater

\* The container arrives from the API.
ExtractData ==
    /\ extracted = None
    /\ \E data \in WireLists : extracted' = [pc |-> "call", data |-> data, result |-> <<>>]

\* extract_list_items(data, item_key)
ExtractCall ==
    /\ extracted # None
    /\ extracted.pc = "call"
    /\ extracted' = [extracted EXCEPT !.pc = "done",
                                      !.result = ExtractListItems(extracted.data, item_key)]

NextExtract ==
    \/ ExtractData /\ UNCHANGED exceptExtracted
    \/ ExtractCall /\ UNCHANGED exceptExtracted

SpecExtract == InitExtract /\ [][NextExtract]_vars

IndexOfKey(key) == CHOOSE i \in DOMAIN IndexKeys : IndexKeys[i] = key

\* The ordered inner payloads a container stands for: "count" skipped, numeric keys
\* in the order of their integer values.
InnerPayloads(data) ==
    IF Falsy(data) \/ data.shape = "str" THEN <<>>
    ELSE IF data.shape = "list" THEN [i \in DOMAIN data.items |-> GetItem(data.items[i][2], item_key)]
    ELSE IF HasItem(data, item_key) THEN <<GetItem(data, item_key)>>
    ELSE [i \in 1..(Len(data.items) - 1) |-> GetItem(GetItem(data, IndexKeys[i]), item_key)]

\* C15: extract_list_items maps the single mapping, the list of wrapped items and the
\* mapping keyed by string indices with a sibling "count" to the same ordered sequence
\* of inner payloads; absent or empty input gives the empty list.
C15_ThreeShapesOneSequence ==
    (extracted # None /\ extracted.pc = "done")
    => extracted.result = InnerPayloads(extracted.data)

\* What does hold: the list and the single mapping are unwrapped, empty input is empty.
ListAndSingleUnwrapped ==
    (extracted # None /\ extracted.pc = "done" /\ ~HasItem(extracted.data, "count"))
    => extracted.result = InnerPayloads(extracted.data)

(***************************************************************************)
(* safe_int, safe_float, safe_str.  A Python value is held as [type, repr] *)
(* with repr its repr() text; the conversions int(), float() and str() are *)
(* tabulated on the values below, with the exception each raises.          *)
(***************************************************************************)
Py(type, repr) == [type |-> type, repr |-> repr]

PyNone == Py("none", "None")

\* What a decoded JSON document can hand to the helpers.
WireValues ==
    {PyNone,
     Py("str", ""), Py("str", "  "), Py("str", "12"), Py("str", " 12 "), Py("str", "2.5"),
     Py("str", "abc"),
     Py("bool", "False"), Py("bool", "True"),
     Py("int", "7"), Py("int", "10**400"),
     Py("float", "2.5"), Py("float", "inf"), Py("float", "nan"),
     Py("list", "[]")}

Returns(value) == [raised |-> "", value |-> value]

Raises(exception) == [raised |-> exception, value |-> PyNone]

\* value.strip()
Strip(text) ==
    CASE text = "  "   -> ""
      [] text = " 12 " -> "12"
      [] OTHER         -> text

\* int(value)
PyInt(value) ==
    CASE value.type = "str" ->
            IF Strip(value.repr) = "12" THEN Returns(Py("int", "12")) ELSE Raises("ValueError")
      [] value.type = "bool" ->
            Returns(Py("int", IF value.repr = "True" THEN "1" ELSE "0"))
      [] value.type = "int" -> Returns(value)
      [] value.type = "float" ->
            CASE value.repr = "inf" -> Raises("OverflowError")
              [] value.repr = "nan" -> Raises("ValueError")
              [] OTHER              -> Returns(Py("int", "2"))
      [] OTHER -> Raises("TypeError")

\* float(value)
PyFloatOf(value) ==
    CASE value.type = "str" ->
            CASE Strip(value.repr) = "12"  -> Returns(Py("float", "12.0"))
              [] Strip(value.repr) = "2.5" -> Returns(Py("float", "2.5"))
              [] OTHER                     -> Raises("ValueError")
      [] value.type = "bool" ->
            Returns(Py("float", IF value.repr = "True" THEN "1.0" ELSE "0.0"))
      [] value.type = "int" ->
            IF value.repr = "10**400" THEN Raises("OverflowError")
            ELSE Returns(Py("float", "7.0"))
      [] value.type = "float" -> Returns(value)
      [] OTHER -> Raises("TypeError")

\* str(value)
PyStr(value) == Py("str", value.repr)

\* try: ... except (ValueError, TypeError): return default
Caught(outcome, default) ==
    IF outcome.raised \in {"ValueError", "TypeError"} THEN Returns(default) ELSE outcome

safe_int(value, default) ==
    IF value = PyNone THEN Returns(default)
    ELSE IF value.type = "str" /\ Strip(value.repr) = "" THEN Returns(default)
    ELSE Caught(PyInt(value), default)

safe_float(value, default) ==
    IF value = PyNone THEN Returns(default)
    ELSE IF value.type = "str" /\ Strip(value.repr) = "" THEN Returns(default)
    ELSE Caught(PyFloatOf(value), default)

safe_str(value, default) ==
    IF value = PyNone THEN Returns(default) ELSE Returns(PyStr(value))

\* The defaults callers pass: the declared ones and one other of each type.
Defaults(fn) ==
    CASE fn = "safe_int"   -> {Py("int", "0"), Py("int", "-1")}
      [] fn = "safe_float" -> {Py("float", "0.0"), Py("float", "-1.0")}
      [] fn = "safe_str"   -> {Py("str", ""), Py("str", "N/A")}

InitCoerce ==
    /\ IdleMatchup
    /\ IdleRoster
    /\ IdleSeason
    /\ IdleLater

\* A parser is about to coerce a wire value.
CoerceArguments ==
    /\ coerced = None
    /\ \E fn \in {"safe_int", "safe_float", "safe_str"}, value \in WireValues :
          \E default \in Defaults(fn) :
             coerced' = [pc |-> "call", fn |-> fn, value |-> value, default |-> default,
                         result |-> Returns(PyNone)]

CoerceCall ==
    /\ coerced # None
    /\ coerced.pc = "call"
    /\ coerced' = [coerced EXCEPT
           !.pc = "done",
           !.result = CASE coerced.fn = "safe_int"   -> safe_int(coerced.value, coerced.default)
                        [] coerced.fn = "safe_float" -> safe_float(coerced.value, coerced.default)
                        [] coerced.fn = "safe_str"   -> safe_str(coerced.value, coerced.default)]

NextCoerce ==
    \/ CoerceArguments /\ UNCHANGED exceptCoerced
    \/ CoerceCall /\ UNCHANGED exceptCoerced

SpecCoerce == InitCoerce /\ [][NextCoerce]_vars

\* None, the empty or whitespace-only string, and the boolean false sentinel.
BlankValues == {PyNone, Py("str", ""), Py("str", "  "), Py("bool", "False")}

\* C16: safe_int, safe_float and safe_str return a value without raising for every
\* input, and return the caller's default, whatever it is, for None, an empty or
\* whitespace-only string and the boolean false sentinel.
C16_TotalWithDefault ==
    (coerced # None /\ coerced.pc = "done")
    => /\ coerced.result.raised = ""
       /\ coerced.value \in BlankValues => coerced.result.value = coerced.default

\* What does hold: None gives the default in all three, and a blank string gives it
\* in safe_int and safe_float.
NoneAndBlankNumbersDefault ==
    (/\ coerced # None
     /\ coerced.pc = "done"
     /\ \/ coerced.value = PyNone
        \/ coerced.fn # "safe_str" /\ coerced.value \in {Py("str", ""), Py("str", "  ")})
    => coerced.result = Returns(coerced.default)

(***************************************************************************)
(* DraftsAPI.is_draft_complete(league_key, expected_picks).  The league is *)
(* what the API would answer: the number of picks get_draft_picks returns, *)
(* the slot count of each roster position of the settings and num_teams    *)
(* as LeagueSettings.from_api_data reads them, and whether either request  *)
(* fails.  expected_picks is [given, n], given FALSE standing for None.    *)
(***************************************************************************)
MaxPicks == 4

MaxPositions == 2

MaxSlotCount == 2

MaxTeams == 2

\* roster_positions of the parsed settings: one RosterPosition per wire entry.
RosterPositions == UNION {[1..n -> 0..MaxSlotCount] : n \in 0..MaxPositions}

RECURSIVE SumOfCounts(_)
SumOfCounts(counts) ==
    IF counts = <<>> THEN 0 ELSE Head(counts) + SumOfCounts(Tail(counts))

\* roster_size = len(settings.roster_positions)
RosterSize(roster_positions) == Len(roster_positions)

IsDraftComplete(league, expected_picks) ==
    IF league.picks_fail THEN FALSE
    ELSE IF league.picks = 0 THEN FALSE
    ELSE IF ~expected_picks.given
    THEN IF league.settings_fail THEN FALSE
         ELSE league.picks >= RosterSize(league.roster_positions) * league.num_teams
    ELSE league.picks >= expected_picks.n

InitDraftComplete ==
    /\ IdleMatchup
    /\ IdleRoster
    /\ IdleSeason
    /\ IdleLater

\* The caller asks about a league.
DraftCompleteArguments ==
    /\ draft_complete = None
    /\ \E picks \in 0..MaxPicks, roster_positions \in RosterPositions, num_teams \in 0..MaxTeams,
          failure \in {"none", "picks", "settings"},
          expected_picks \in {[given |-> FALSE, n |-> 0]}
                             \cup {[given |-> TRUE, n |-> n] : n \in 0..MaxPicks} :
          draft_complete' =
              [pc |-> "call",
               league |-> [picks |-> picks, roster_positions |-> roster_positions,
                           num_teams |-> num_teams,
                           picks_fail |-> failure = "picks",
                           settings_fail |-> failure = "settings"],
               expected_picks |-> expected_picks,
               result |-> FALSE]

DraftCompleteCall ==
    /\ draft_complete # None
    /\ draft_complete.pc = "call"
    /\ draft_complete' =
           [draft_complete EXCEPT
               !.pc = "done",
               !.result = IsDraftComplete(draft_complete.league, draft_complete.expected_picks)]

NextDraftComplete ==
    \/ DraftCompleteArguments /\ UNCHANGED exceptDraftComplete
    \/ DraftCompleteCall /\ UNCHANGED exceptDraftComplete

SpecDraftComplete == InitDraftComplete /\ [][NextDraftComplete]_vars

\* C17: without expected_picks, is_draft_complete is true exactly when the number of
\* picks is at least (the sum of the slot counts of the roster positions) x num_teams,
\* and false when there are no picks or a lookup fails.
C17_RosterSizeIsSumOfCounts ==
    (/\ draft_complete # None
     /\ draft_complete.pc = "done"
     /\ ~draft_complete.expected_picks.given)
    => LET league == draft_complete.league
       IN  draft_complete.result =
               (/\ ~league.picks_fail
                /\ ~league.settings_fail
                /\ league.picks > 0
                /\ league.picks >= SumOfCounts(league.roster_positions) * league.num_teams)

\* What does hold: the estimate is the number of roster position entries x num_teams.
EstimateCountsPositionEntries ==
    (/\ draft_complete # None
     /\ draft_complete.pc = "done"
     /\ ~draft_complete.expected_picks.given)
    => LET league == draft_complete.league
       IN  draft_complete.result =
               (/\ ~league.picks_fail
                /\ ~league.settings_fail
                /\ league.picks > 0
                /\ league.picks >= Len(league.roster_positions) * league.num_teams)

(***************************************************************************)
(* DraftsAPI._enrich_picks_with_names(league_key, picks,                   *)
(* include_player_names), with _lookup_team_names and _lookup_player_names.*)
(* A lookup is one API request, which fails for the keys in failing_teams  *)
(* and failing_players.  A name that is None is NoTeam, a cost that is     *)
(* None is NoCost; a names dict is a sequence of <<key, info>>, an info    *)
(* dict with the key "name" absent has has_name FALSE.                     *)
(***************************************************************************)
MaxDraftPicks == 2

NoCost == -1

DraftTeamKeys == {"k1", "k2"}

DraftPlayerKeys == {"p1", "p2"}

DraftPick(pick, team_key, player_key, cost) ==
    [pick |-> pick, round |-> 1, team_key |-> team_key, player_key |-> player_key,
     cost |-> cost, player_name |-> NoTeam, player_position |-> NoTeam,
     player_team |-> NoTeam, team_name |-> NoTeam]

\* The lists of picks get_draft_picks passes on, sorted by pick number.
DraftPickLists ==
    UNION {{[i \in 1..n |-> DraftPick(i, team[i], player[i], cost[i])] :
               team \in [1..n -> DraftTeamKeys], player \in [1..n -> DraftPlayerKeys],
               cost \in [1..n -> {NoCost, 5}]} : n \in 0..MaxDraftPicks}

EmptyInfo == [has_name |-> FALSE, name |-> NoTeam, position |-> NoTeam, team |-> NoTeam]

\* Mutant of TeamInfo: a failed lookup leaves the name None.
TeamInfoOrNone(team_key, fails) ==
    [EmptyInfo EXCEPT !.has_name = TRUE,
                      !.name = IF fails THEN NoTeam ELSE TeamName(team_key)]

\* One iteration of _lookup_team_names: {'name': team.name}, or {'name': team_key}
\* when get_team raises.
TeamInfo(team_key, fails) ==
    [EmptyInfo EXCEPT !.has_name = TRUE,
                      !.name = IF fails THEN team_key ELSE TeamName(team_key)]

PlayerName(player_key) == IF player_key = "p1" THEN "Ann" ELSE "Bob"

\* One iteration of _lookup_player_names.
PlayerInfo(player_key, fails) ==
    IF fails THEN [EmptyInfo EXCEPT !.has_name = TRUE, !.name = player_key]
    ELSE [has_name |-> TRUE, name |-> PlayerName(player_key), position |-> "RB",
          team |-> "SF"]

\* names.get(key, {})
InfoOf(names, key) == IF HasKey(names, key) THEN DictGet(names, key) ELSE EmptyInfo

\* The loop building enriched_picks (lines 107-124).
EnrichedPicks(picks, team_names, player_names, include_player_names) ==
    [i \in 1..Len(picks) |->
        LET pick        == picks[i]
            player_info == InfoOf(player_names, pick.player_key)
            team_info   == InfoOf(team_names, pick.team_key)
        IN  [pick            |-> pick.pick,
             round           |-> pick.round,
             team_key        |-> pick.team_key,
             player_key      |-> pick.player_key,
             cost            |-> pick.cost,
             player_name     |-> IF include_player_names THEN player_info.name ELSE NoTeam,
             player_position |-> IF include_player_names THEN player_info.position
                                 ELSE NoTeam,
             player_team     |-> IF include_player_names THEN player_info.team ELSE NoTeam,
             team_name       |-> IF team_info.has_name THEN team_info.name
                                 ELSE pick.team_key]]

InitEnrich ==
    /\ IdleMatchup
    /\ IdleRoster
    /\ IdleSeason
    /\ IdleLater

\* The call, up to the sets of keys to look up (lines 92-97, 103); empty picks return.
EnrichCall ==
    /\ enrich = None
    /\ \E picks \in DraftPickLists, include_player_names \in BOOLEAN,
          failing_teams \in SUBSET DraftTeamKeys, failing_players \in SUBSET DraftPlayerKeys :
          enrich' =
              [pc |-> IF picks = <<>> THEN "done" ELSE "lookup",
               picks |-> picks,
               include_player_names |-> include_player_names,
               failing_teams |-> failing_teams,
               failing_players |-> failing_players,
               team_keys |-> {picks[i].team_key : i \in 1..Len(picks)},
               player_keys |-> IF include_player_names
                               THEN {picks[i].player_key : i \in 1..Len(picks)} ELSE {},
               team_names |-> <<>>,
               player_names |-> <<>>,
               result |-> picks]

\* get_team for the next key of list(set(...)), whose order is arbitrary.
EnrichLookupTeam ==
    /\ enrich # None
    /\ enrich.pc = "lookup"
    /\ \E team_key \in enrich.team_keys :
          enrich' = [enrich EXCEPT
              !.team_keys = @ \ {team_key},
              !.team_names = DictSet(@, team_key,
                                     TeamInfo(team_key, team_key \in enrich.failing_teams))]

\* get_player for the next key, once the team names are in.
EnrichLookupPlayer ==
    /\ enrich # None
    /\ enrich.pc = "lookup"
    /\ enrich.team_keys = {}
    /\ \E player_key \in enrich.player_keys :
          enrich' = [enrich EXCEPT
              !.player_keys = @ \ {player_key},
              !.player_names = DictSet(@, player_key,
                                       PlayerInfo(player_key,
                                                  player_key \in enrich.failing_players))]

EnrichReturn ==
    /\ enrich # None
    /\ enrich.pc = "lookup"
    /\ enrich.team_keys = {}
    /\ enrich.player_keys = {}
    /\ enrich' = [enrich EXCEPT
           !.pc = "done",
           !.result = EnrichedPicks(enrich.picks, enrich.team_names, enrich.player_names,
                                    enrich.include_player_names)]

NextEnrich ==
    \/ EnrichCall /\ UNCHANGED exceptEnrich
    \/ EnrichLookupTeam /\ UNCHANGED exceptEnrich
    \/ EnrichLookupPlayer /\ UNCHANGED exceptEnrich
    \/ EnrichReturn /\ UNCHANGED exceptEnrich

SpecEnrich == InitEnrich /\ [][NextEnrich]_vars

\* C18: for any picks and any pattern of failing team or player lookups,
\* _enrich_picks_with_names returns a list of the same length and order with pick,
\* round, team_key, player_key and cost of every pick unchanged, and a pick whose
\* team lookup failed has its raw team_key as team_name.
C18_EnrichmentBestEffort ==
    (enrich # None /\ enrich.pc = "done" /\ enrich.picks # <<>>)
    => /\ Len(enrich.result) = Len(enrich.picks)
       /\ \A i \in 1..Len(enrich.picks) :
             LET before == enrich.picks[i]
                 after  == enrich.result[i]
             IN  /\ after.pick = before.pick
                 /\ after.round = before.round
                 /\ after.team_key = before.team_key
                 /\ after.player_key = before.player_key
                 /\ after.cost = before.cost
                 /\ before.team_key \in enrich.failing_teams
                        => after.team_name = before.team_key

\* Two picks of different teams, one team's lookup failing and the other's not, player
\* names asked for with a failing player lookup, one pick with a cost.
C18_Witness ==
    /\ enrich # None
    /\ enrich.pc = "done"
    /\ Len(enrich.picks) = 2
    /\ enrich.include_player_names
    /\ enrich.picks[1].team_key \in enrich.failing_teams
    /\ enrich.picks[2].team_key \notin enrich.failing_teams
    /\ enrich.picks[2].player_key \in enrich.failing_players
    /\ enrich.picks[1].cost = 5
    /\ enrich.result[1].team_name = enrich.picks[1].team_key
    /\ enrich.result[2].team_name = TeamName(enrich.picks[2].team_key)

(***************************************************************************)
(* YahooHTTP with AuthClient.refresh_token and save_token.  The clock      *)
(* (time.time(), in seconds) moves only while the client is blocked: on a  *)
(* request to the token endpoint or to the API, in the back-off sleep      *)
(* between two attempts of _make_request, and between two calls.  Access   *)
(* and refresh tokens are numbered in the order the server issues them.    *)
(* http.request is the API request last sent, http.refresh_request the     *)
(* form last posted to the token endpoint, http.token_data the last token  *)
(* response, http.status the status of the last API response of the call   *)
(* (or the exception of httpx in its place).                               *)
(***************************************************************************)
MaxClockSteps == 5

MaxIssued == 2

\* The clock moves in steps of the 20 s request timeout.
ClockStep == 20

ExpiryMargin == 60

MaxAttempts == 5

\* expires_in of the token responses.
Lifetimes == {40, 80}

\* _is_retryable_error, for the exception that raise_for_status or the transport
\* raises on a response of the given status.
IsRetryableError(status) ==
    \/ status \in {"429", "500", "502", "503", "504", "999"}
    \/ status \in {"ConnectError", "TimeoutException"}

\* Token.is_expired at time now
IsExpired(token, now) == now > token.expires_at - ExpiryMargin

NoRequest == [access_token |-> -1, attempt |-> 0]

NoRefreshRequest == [grant_type |-> "", refresh_token |-> -1]

NoTokenData ==
    [access_token |-> -1, expires_in |-> 0, has_refresh_token |-> FALSE, refresh_token |-> -1]

\* The data of the POST in refresh_token (lines 281-285).
RefreshForm(token) == [grant_type |-> "refresh_token", refresh_token |-> token.refresh_token]

\* Mutant of RefreshedToken: refresh_token is taken from the response in any case.
RefreshedTokenAlwaysRotated(token, token_data, now) ==
    [access_token  |-> token_data.access_token,
     refresh_token |-> token_data.refresh_token,
     expires_at    |-> now + token_data.expires_in]

\* The token after lines 293-298, time.time() being now.
RefreshedToken(token, token_data, now) ==
    [access_token  |-> token_data.access_token,
     refresh_token |-> IF token_data.has_refresh_token THEN token_data.refresh_token
                       ELSE token.refresh_token,
     expires_at    |-> now + token_data.expires_in]

\* The token responses the server can give next.
TokenResponses(h) ==
    {[access_token |-> h.issued + 1, expires_in |-> expires_in,
      has_refresh_token |-> rotated,
      refresh_token |-> IF rotated THEN h.issued + 1 ELSE -1] :
        expires_in \in Lifetimes, rotated \in BOOLEAN}

\* The time a blocking operation can take.
Elapsed(h) == {0} \cup (IF h.now + ClockStep <= MaxClockSteps * ClockStep THEN {ClockStep} ELSE {})

\* self.client.request / self.client.post with _get_headers()
SendRequest(h, attempt) ==
    [h EXCEPT !.request = [access_token |-> h.token.access_token, attempt |-> attempt],
              !.attempt = attempt]

\* The call returns or raises.
Finish(h, result) == [h EXCEPT !.pc = "idle", !.result = result]

\* An exception leaves the attempt: _make_request is retried by tenacity up to
\* MaxAttempts attempts, post is not.
Fail(h) ==
    IF h.method \in {"get", "get_raw"} /\ h.attempt < MaxAttempts
    THEN [h EXCEPT !.pc = "wait"]
    ELSE Finish(h, "raised")

\* get, get_raw and post up to their first request: _refresh_token_if_needed, then
\* the API request unless the token endpoint has to answer first.
Call(h, method) ==
    LET called == [h EXCEPT !.method = method, !.result = "", !.attempt = 1,
                            !.status = ""]
    IN  IF IsExpired(h.token, h.now)
        THEN [called EXCEPT !.pc = "refresh_first", !.refresh_request = RefreshForm(h.token)]
        ELSE [SendRequest(called, 1) EXCEPT !.pc = "request"]

\* The token endpoint answers with token_data after elapsed seconds: refresh_token
\* returns and the caller saves the token.
Refreshed(h, token_data, elapsed) ==
    [h EXCEPT !.now = @ + elapsed,
              !.token_data = token_data,
              !.issued = @ + 1,
              !.lifetimes = @ \cup {token_data.expires_in},
              !.token = RefreshedToken(h.token, token_data, h.now + elapsed),
              !.saved = RefreshedToken(h.token, token_data, h.now + elapsed)]

InitHttp ==
    /\ IdleMatchup
    /\ IdleRoster
    /\ IdleSeason
    /\ IdleLater

\* YahooHTTP(settings, token, auth_client), with a token loaded from the store.
HttpNew ==
    /\ http = None
    /\ \E expires_at \in {0, 80} :
          LET token == [access_token |-> 0, refresh_token |-> 0, expires_at |-> expires_at]
          IN  http' = [pc |-> "idle", now |-> 0, token |-> token, saved |-> token,
                       method |-> "", attempt |-> 0, status |-> "", result |-> "",
                       request |-> NoRequest, refresh_request |-> NoRefreshRequest,
                       token_data |-> NoTokenData, issued |-> 0, lifetimes |-> {}]

HttpGet == http # None /\ http.pc = "idle" /\ http' = Call(http, "get")

HttpGetRaw == http # None /\ http.pc = "idle" /\ http' = Call(http, "get_raw")

HttpPost == http # None /\ http.pc = "idle" /\ http' = Call(http, "post")

\* Time passes between two calls.
HttpIdle ==
    /\ http # None
    /\ http.pc = "idle"
    /\ http.now + ClockStep <= MaxClockSteps * ClockStep
    /\ http' = [http EXCEPT !.now = @ + ClockStep]

\* The token endpoint answers the refresh of _refresh_token_if_needed.
HttpRefreshFirst ==
    /\ http # None
    /\ http.pc = "refresh_first"
    /\ \E elapsed \in Elapsed(http) :
          \/ /\ http.issued < MaxIssued
             /\ \E token_data \in TokenResponses(http) :
                   http' = [SendRequest(Refreshed(http, token_data, elapsed), 1)
                               EXCEPT !.pc = "request"]
          \/ http' = Finish([http EXCEPT !.now = @ + elapsed], "raised")

\* The API answers the request of an attempt.
HttpResponse ==
    /\ http # None
    /\ http.pc = "request"
    /\ \E elapsed \in Elapsed(http), status \in {"200", "401", "404", "503", "ConnectError"} :
          LET h == [http EXCEPT !.now = @ + elapsed, !.status = status]
          IN  http' = CASE status = "200" -> Finish(h, "returned")
                        [] status = "401" ->
                              [h EXCEPT !.pc = "refresh_401",
                                        !.refresh_request = RefreshForm(h.token)]
                        [] OTHER -> Fail(h)

\* The token endpoint answers the refresh that follows a 401.
HttpRefresh401 ==
    /\ http # None
    /\ http.pc = "refresh_401"
    /\ \E elapsed \in Elapsed(http) :
          \/ /\ http.issued < MaxIssued
             /\ \E token_data \in TokenResponses(http) :
                   http' = [SendRequest(Refreshed(http, token_data, elapsed), http.attempt)
                               EXCEPT !.pc = "resend"]
          \/ http' = Fail([http EXCEPT !.now = @ + elapsed])

\* The API answers the request sent again after a 401.
HttpResponseAgain ==
    /\ http # None
    /\ http.pc = "resend"
    /\ \E elapsed \in Elapsed(http), status \in {"200", "401", "404", "503", "ConnectError"} :
          LET h == [http EXCEPT !.now = @ + elapsed, !.status = status]
          IN  http' = IF status = "200" THEN Finish(h, "returned") ELSE Fail(h)

\* The back-off sleep is over: the next attempt of _make_request sends its request.
HttpRetry ==
    /\ http # None
    /\ http.pc = "wait"
    /\ \E elapsed \in Elapsed(http) :
          http' = [SendRequest([http EXCEPT !.now = @ + elapsed], http.attempt + 1)
                      EXCEPT !.pc = "request"]

NextHttp ==
    \/ HttpNew /\ UNCHANGED exceptHttp
    \/ HttpGet /\ UNCHANGED exceptHttp
    \/ HttpGetRaw /\ UNCHANGED exceptHttp
    \/ HttpPost /\ UNCHANGED exceptHttp
    \/ HttpIdle /\ UNCHANGED exceptHttp
    \/ HttpRefreshFirst /\ UNCHANGED exceptHttp
    \/ HttpResponse /\ UNCHANGED exceptHttp
    \/ HttpRefresh401 /\ UNCHANGED exceptHttp
    \/ HttpResponseAgain /\ UNCHANGED exceptHttp
    \/ HttpRetry /\ UNCHANGED exceptHttp

SpecHttp == InitHttp /\ [][NextHttp]_vars

\* A refresh is waiting for the token endpoint.
Refreshing == http # None /\ http.pc \in {"refresh_first", "refresh_401"}

\* This step is a successful return of refresh_token.
RefreshReturns == http # None /\ http' # None /\ http'.issued = http.issued + 1

C19_Request ==
    Refreshing =>
        /\ http.refresh_request.grant_type = "refresh_token"
        /\ http.refresh_request.refresh_token = http.token.refresh_token

C19_Frame ==
    RefreshReturns =>
        /\ http'.token.access_token = http'.token_data.access_token
        /\ http'.token.expires_at = http'.now + http'.token_data.expires_in
        /\ http'.token.refresh_token =
               IF http'.token_data.has_refresh_token
               THEN http'.token_data.refresh_token ELSE http.token.refresh_token

\* C19: refresh_token replaces the token's access_token and expires_at by the values of
\* the token response (expires_at being the time of the response plus its expires_in)
\* and keeps refresh_token unless the response carries a new one; the request is sent
\* with grant_type refresh_token and the token's current refresh_token.
C19_RefreshFrame == []C19_Request /\ [][C19_Frame]_vars

\* Two refreshes: the first response carried a new refresh_token, the second did not.
C19_Witness ==
    /\ http # None
    /\ http.issued = 2
    /\ http.token.access_token = 2
    /\ http.token.refresh_token = 1
    /\ ~http.token_data.has_refresh_token
    /\ http.token.expires_at = http.now + http.token_data.expires_in

\* Every lifetime the server has issued is longer than the margin.
LongLifetimes == \A expires_in \in http.lifetimes : expires_in > ExpiryMargin

\* An API request has just been sent.
RequestSent == http # None /\ http.pc \in {"request", "resend"}

\* This step is a call of get, get_raw or post.
Called == http # None /\ http.pc = "idle" /\ http' # None /\ http'.pc # "idle"

C20_RefreshedBeforeRequest ==
    /\ Called => (http'.pc = "refresh_first" <=> http.now > http.token.expires_at - 60)
    /\ (Called /\ http'.pc = "refresh_first") => http'.request = http.request
    /\ (http # None /\ http.pc = "refresh_first" /\ http' # None /\ http'.pc = "request")
           => /\ http'.token.access_token # http.token.access_token
              /\ http'.saved = http'.token
              /\ http'.request.access_token = http'.token.access_token

C20_NoExpiredTokenSent ==
    (RequestSent /\ LongLifetimes)
    => /\ http.request.access_token = http.token.access_token
       /\ ~(http.now > http.token.expires_at - 60)

\* C20: a token is expired from 60 seconds before expires_at; a call of get, get_raw or
\* post with an expired token refreshes and saves the token before the API request is
\* sent; and, the server issuing lifetimes above 60 seconds, no API request is sent
\* with the access token of an expired token.
C20_ExpiredTokenNeverSent == [][C20_RefreshedBeforeRequest]_vars /\ []C20_NoExpiredTokenSent

\* What does hold: the calls refresh first, and the first request of a call and the
\* request sent again after a 401 carry a token that is not expired.
FirstRequestCarriesFreshToken ==
    /\ [][C20_RefreshedBeforeRequest]_vars
    /\ []((RequestSent /\ LongLifetimes /\ (http.attempt = 1 \/ http.pc = "resend"))
            => ~IsExpired(http.token, http.now))

(***************************************************************************)
(* The three analyses of one SeasonResults whose weeks were added in any   *)
(* order.  Each operator below is one call of WeeklyAnalyzer from its      *)
(* first line to its return, on the dict `items` (weekly_scoreboards, in   *)
(* insertion order), with the default elimination_weeks and                *)
(* weeks_to_analyze (None).                                                *)
(***************************************************************************)
MaxOrderWeek == 5

OrderPayloads ==
    {<<WireFinal("k1", "5", "k2", "2"), WireFinal("k3", "3", "k4", "1")>>,
     <<WireFinal("k1", "2", "k2", "2"), WireFinal("k3", "2", "k4", "3")>>}

\* The min_skins_margin of the analyzer of these seasons.
OrderMinSkinsMargins == {3}

\* list(items.keys())
KeysOf(items) == [i \in 1..Len(items) |-> items[i][1]]

\* min(keys)
MinKey(keys) == CHOOSE w \in {keys[i] : i \in 1..Len(keys)} :
                    \A i \in 1..Len(keys) : w <= keys[i]

\* The loop of calculate_skins_winners over the weeks still to do (lines 47-87).
RECURSIVE SkinsLoop(_, _, _, _, _, _)
SkinsLoop(items, weeks, min_skins_margin, weekly_pot, current_pot, skins_winners) ==
    IF weeks = <<>> THEN skins_winners
    ELSE LET week_num          == Head(weeks)
             scoreboard        == DictGet(items, week_num)
             potential_winners == PotentialWinners(scoreboard.matchups, min_skins_margin)
             week_winner       == MaxByMargin(potential_winners)
             winning_team      == week_winner.team
             win == [week       |-> week_num,
                     margin     |-> week_winner.margin,
                     pot_amount |-> current_pot,
                     opponent   |-> GetTeamOpponent(week_winner.matchup,
                                                    winning_team.team_key).team_name]
         IN  IF potential_winners = <<>>
             THEN SkinsLoop(items, Tail(weeks), min_skins_margin, weekly_pot,
                            PotAfterRollover(current_pot, weekly_pot), skins_winners)
             ELSE SkinsLoop(items, Tail(weeks), min_skins_margin, weekly_pot,
                            weekly_pot,
                            RecordWin(skins_winners, winning_team.team_name, win))

\* calculate_skins_winners(season_results, weekly_pot)
CalculateSkinsWinners(items, min_skins_margin, weekly_pot) ==
    SkinsLoop(items, Sorted(KeysOf(items)), min_skins_margin, weekly_pot,
              weekly_pot, <<>>)

\* The loop of calculate_survivor_results over the weeks still to do, and its
\* return value (lines 124-161).
RECURSIVE SurvivorLoop(_, _, _, _)
SurvivorLoop(items, weeks, active_teams, eliminations) ==
    IF weeks = <<>> \/ Cardinality(active_teams) <= 1
    THEN [winner             |-> SurvivorWinner(active_teams),
          eliminations       |-> eliminations,
          final_active_teams |-> active_teams]
    ELSE LET week == Head(weeks)
             week_scores     == WeekScores(DictGet(items, week).matchups, active_teams)
             eliminated_team == LowestScorer(week_scores)
             remaining       == active_teams \ {eliminated_team[1]}
         IN  IF ~HasKey(items, week)
             THEN SurvivorLoop(items, Tail(weeks), active_teams, eliminations)
             ELSE IF week_scores = <<>>
             THEN SurvivorLoop(items, Tail(weeks), active_teams, eliminations)
             ELSE SurvivorLoop(items, Tail(weeks), remaining,
                      Append(eliminations,
                          [week             |-> week,
                           eliminated_team  |-> eliminated_team[1],
                           eliminated_score |-> eliminated_team[2],
                           remaining_teams  |-> Cardinality(remaining)]))

\* calculate_survivor_results(season_results)
CalculateSurvivorResults(items) ==
    IF items = <<>>
    THEN [winner |-> NoTeam, eliminations |-> <<>>, final_active_teams |-> {}]
    ELSE SurvivorLoop(items, Sorted(KeysOf(items)),
                      TeamNamesOf(DictGet(items, MinKey(KeysOf(items)))), <<>>)

\* The loop of calculate_power_rankings over weeks_to_analyze (lines 186-209).
RECURSIVE PowerCollect(_, _, _)
PowerCollect(items, weeks, team_stats) ==
    IF weeks = <<>> THEN team_stats
    ELSE IF ~HasKey(items, Head(weeks))
    THEN PowerCollect(items, Tail(weeks), team_stats)
    ELSE PowerCollect(items, Tail(weeks),
                      CollectMatchups(team_stats, DictGet(items, Head(weeks)).matchups))

\* calculate_power_rankings(season_results)
CalculatePowerRankings(items) ==
    RankedDescending(
        PowerEntries(PowerCollect(items, DefaultWindow(Sorted(KeysOf(items))), <<>>)))

\* SeasonResults(league_key, season)
OrderNew ==
    /\ ordered = None
    /\ ordered' = [pc |-> "adding", items |-> <<>>, min_skins_margin |-> 0,
                   weekly_pot |-> 0, skins |-> <<>>, survivor |-> None, power |-> <<>>]
    /\ UNCHANGED exceptOrdered

\* season_results.add_week(scoreboard), for a week that is not stored yet.
OrderAddWeek ==
    /\ ordered # None
    /\ ordered.pc = "adding"
    /\ \E week \in 1..MaxOrderWeek : \E wires \in OrderPayloads :
          /\ ~HasKey(ordered.items, week)
          /\ ordered' = [ordered EXCEPT
                            !.items = DictSet(@, week, Scoreboard(week, wires))]
    /\ UNCHANGED exceptOrdered

\* The three analyses of the season, one after the other.
OrderAnalyse ==
    /\ ordered # None
    /\ ordered.pc = "adding"
    /\ \E min_skins_margin \in OrderMinSkinsMargins, weekly_pot \in WeeklyPots :
          ordered' = [ordered EXCEPT
              !.pc = "done",
              !.min_skins_margin = min_skins_margin,
              !.weekly_pot = weekly_pot,
              !.skins = CalculateSkinsWinners(ordered.items, min_skins_margin, weekly_pot),
              !.survivor = CalculateSurvivorResults(ordered.items),
              !.power = CalculatePowerRankings(ordered.items)]
    /\ UNCHANGED exceptOrdered

InitOrder ==
    /\ IdleMatchup
    /\ IdleRoster
    /\ IdleSeason
    /\ IdleLater

NextOrder ==
    \/ OrderNew
    \/ OrderAddWeek
    \/ OrderAnalyse

SpecOrder == InitOrder /\ [][NextOrder]_vars

\* The number of the stored weeks up to and including the week of item i.
WeekRank(items, i) == Cardinality({j \in 1..Len(items) : items[j][1] <= items[i][1]})

\* The same items, as they would stand had the weeks been added in ascending order.
Ascending(items) ==
    [r \in 1..Len(items) |-> items[CHOOSE i \in 1..Len(items) : WeekRank(items, i) = r]]

IsAscending(weeks) == \A i \in 1..Len(weeks) - 1 : weeks[i] < weeks[i + 1]

(***************************************************************************)
(* C21: for scoreboards of distinct weeks, the results of                  *)
(* calculate_skins_winners, calculate_survivor_results (default weeks) and *)
(* calculate_power_rankings (default window) do not depend on the order of *)
(* the add_week calls: they are the results for the same scoreboards added *)
(* in ascending week order.                                                *)
(***************************************************************************)
C21_OrderIndependent ==
    (ordered # None /\ ordered.pc = "done") =>
        LET ascending == Ascending(ordered.items)
        IN  /\ ordered.skins = CalculateSkinsWinners(ascending, ordered.min_skins_margin,
                                                     ordered.weekly_pot)
            /\ ordered.survivor = CalculateSurvivorResults(ascending)
            /\ ordered.power = CalculatePowerRankings(ascending)

\* More weeks than the default window, added out of order, with a pot that rolled
\* over and a team eliminated.
C21_Witness ==
    /\ ordered # None
    /\ ordered.pc = "done"
    /\ Len(ordered.items) > WindowWeeks
    /\ ~IsAscending(KeysOf(ordered.items))
    /\ KeysOf(ordered.items)[1] # MinKey(KeysOf(ordered.items))
    /\ \E t \in DOMAIN ordered.skins : \E i \in 1..Len(ordered.skins[t]) :
          ordered.skins[t][i].pot_amount > ordered.weekly_pot
    /\ ordered.survivor.eliminations # <<>>
    /\ ordered.power # <<>>

(***************************************************************************)
(* WeeklyAnalyzer.export_season_summary: the team_records of the summary.  *)
(* The seasons hold every team in at most one matchup a week, and every    *)
(* team's name differs from its key, as Yahoo keys ("461.l.1.t.3") do from *)
(* the names managers give their teams.  total_points is in points,        *)
(* avg_points in hundredths of a point.                                    *)
(***************************************************************************)
SummaryPayloads ==
    {<<WireFinal("k1", "5", "k2", "2")>>,
     <<WireFinal("k1", "2", "k2", "2"), WireFinal("k3", "3", "k4", "1")>>,
     <<[WireFinal("k1", "5", "k2", "2") EXCEPT !.status = "midevent"]>>,
     <<WireFinal("k3", "1", "k1", "3")>>}

\* WeeklyScoreboard.get_team_score
GetTeamScore(scoreboard, team_key) ==
    LET found == GetMatchupByTeam(scoreboard, team_key)
    IN  IF found = None THEN None
        ELSE IF found.team1.team_key = team_key THEN found.team1
        ELSE IF found.team2.team_key = team_key THEN found.team2
        ELSE None

\* SeasonResults.get_team_total_points over the items of weekly_scoreboards.
RECURSIVE GetTeamTotalPoints(_, _)
GetTeamTotalPoints(items, team_key) ==
    IF items = <<>> THEN 0
    ELSE LET team_score == GetTeamScore(items[Len(items)][2], team_key)
             before     == GetTeamTotalPoints(SubSeq(items, 1, Len(items) - 1), team_key)
         IN  IF team_score = None THEN before ELSE before + team_score.points

\* all_teams: the team names of every stored matchup (lines 328-337).
AllTeams(items) == UNION {TeamNamesOf(items[i][2]) : i \in 1..Len(items)}

\* The entry of team_records for one element of all_teams (lines 349-357).
TeamRecordEntry(items, team_name) ==
    LET found        == GetTeamRecord(items, team_name)
        total_points == GetTeamTotalPoints(items, team_name)
        games        == found.wins + found.losses + found.ties
    IN  [wins         |-> found.wins,
         losses       |-> found.losses,
         ties         |-> found.ties,
         total_points |-> total_points,
         avg_points   |-> IF games > 0 THEN RoundHalfEven(100 * total_points, games) ELSE 0]

\* SeasonResults(league_key, season)
SummaryNew ==
    /\ summary = None
    /\ summary' = [pc |-> "adding", items |-> <<>>, team_records |-> <<>>]
    /\ UNCHANGED exceptSummary

\* season_results.add_week(scoreboard)
SummaryAddWeek ==
    /\ summary # None
    /\ summary.pc = "adding"
    /\ \E week \in 1..MaxWeek : \E wires \in SummaryPayloads :
          summary' = [summary EXCEPT !.items = DictSet(@, week, Scoreboard(week, wires))]
    /\ UNCHANGED exceptSummary

\* export_season_summary(season_results): summary["team_records"].
SummaryExport ==
    /\ summary # None
    /\ summary.pc = "adding"
    /\ summary' = [summary EXCEPT
          !.pc = "done",
          !.team_records = [team_name \in AllTeams(summary.items) |->
                               TeamRecordEntry(summary.items, team_name)]]
    /\ UNCHANGED exceptSummary

InitSummary ==
    /\ IdleMatchup
    /\ IdleRoster
    /\ IdleSeason
    /\ IdleLater

NextSummary ==
    \/ SummaryNew
    \/ SummaryAddWeek
    \/ SummaryExport

SpecSummary == InitSummary /\ [][NextSummary]_vars

\* The teams of the stored matchups.
TeamsIn(items) ==
    UNION {UNION {{items[i][2].matchups[j].team1, items[i][2].matchups[j].team2} :
                     j \in 1..Len(items[i][2].matchups)} : i \in 1..Len(items)}

\* The matchups of all stored weeks.
RECURSIVE AllMatchups(_)
AllMatchups(items) ==
    IF items = <<>> THEN <<>> ELSE Head(items)[2].matchups \o AllMatchups(Tail(items))

\* The stored matchups the team plays in.
PlayedBy(items, team_key) ==
    SelectSeq(AllMatchups(items),
              LAMBDA m : team_key \in {m.team1.team_key, m.team2.team_key})

\* The points of the team in each of them.
PointsIn(items, team_key) ==
    LET played == PlayedBy(items, team_key)
    IN  [i \in 1..Len(played) |->
            IF played[i].team1.team_key = team_key THEN played[i].team1.points
            ELSE played[i].team2.points]

(***************************************************************************)
(* C27: in the summary of export_season_summary, team_records[team name]   *)
(* of every team of a stored matchup has wins + losses + ties equal to the *)
(* number of postevent matchups the team played in the stored weeks and    *)
(* total_points equal to the sum of its weekly points: the figures of      *)
(* get_team_record and get_team_total_points for the team's key.           *)
(***************************************************************************)
C27_TeamRecordsInSummary ==
    (summary # None /\ summary.pc = "done") =>
        \A team \in TeamsIn(summary.items) :
            LET entry == summary.team_records[team.team_name]
                final == SelectSeq(PlayedBy(summary.items, team.team_key),
                                   LAMBDA m : m.status = "postevent")
                found == GetTeamRecord(summary.items, team.team_key)
            IN  /\ entry.wins + entry.losses + entry.ties = Len(final)
                /\ entry.total_points = Sum(PointsIn(summary.items, team.team_key))
                /\ entry.wins = found.wins
                /\ entry.losses = found.losses
                /\ entry.ties = found.ties
                /\ entry.total_points = GetTeamTotalPoints(summary.items, team.team_key)

\* What the summary holds instead: the figures of the team whose key is the name.
TeamRecordsAreOfTheName ==
    (summary # None /\ summary.pc = "done") =>
        \A team \in TeamsIn(summary.items) :
            LET entry == summary.team_records[team.team_name]
            IN  /\ entry.total_points = Sum(PointsIn(summary.items, team.team_name))
                /\ entry.wins + entry.losses + entry.ties
                      = Len(SelectSeq(PlayedBy(summary.items, team.team_name),
                                      LAMBDA m : m.status = "postevent"))

(***************************************************************************)
(* C29: get_team_record credits one team of every stored postevent,        *)
(* non-tied matchup with a win and the other with a loss, so the wins of   *)
(* all teams together equal their losses.                                  *)
(***************************************************************************)
C29_WinsEqualLosses ==
    record # None =>
        LET keys  == {team.team_key : team \in TeamsIn(weekly_scoreboards)}
            order == CHOOSE seq \in Orderings(keys) : TRUE
            wins   == [i \in 1..Len(order) |-> GetTeamRecord(weekly_scoreboards, order[i]).wins]
            losses == [i \in 1..Len(order) |-> GetTeamRecord(weekly_scoreboards, order[i]).losses]
        IN  /\ \A i \in 1..Len(weekly_scoreboards) :
                  LET scoreboard == weekly_scoreboards[i][2]
                      none       == [wins |-> 0, losses |-> 0, ties |-> 0]
                  IN  \A j \in 1..Len(scoreboard.matchups) :
                          LET m  == scoreboard.matchups[j]
                              c1 == CountWeek(none, scoreboard, m.team1.team_key)
                              c2 == CountWeek(none, scoreboard, m.team2.team_key)
                          IN  (m.status = "postevent" /\ ~m.is_tied) =>
                                  \/ c1.wins = 1 /\ c2.losses = 1 /\ c1.losses = 0 /\ c2.wins = 0
                                  \/ c2.wins = 1 /\ c1.losses = 1 /\ c2.losses = 0 /\ c1.wins = 0
            /\ Sum(wins) = Sum(losses)

\* Every stored postevent, non-tied matchup names one of its two teams as the winner.
WinnersAreNamed ==
    \A i \in 1..Len(weekly_scoreboards) :
        \A j \in 1..Len(weekly_scoreboards[i][2].matchups) :
            LET m == weekly_scoreboards[i][2].matchups[j]
            IN  (m.status = "postevent" /\ ~m.is_tied)
                    => m.winner_team_key \in {m.team1.team_key, m.team2.team_key}

\* The same, over the seasons in which every team plays once a week and the API
\* names the winner of every decided matchup.
WinsEqualLossesWhenWinnersAreNamed ==
    (TeamsPlayOncePerWeek /\ WinnersAreNamed) => C29_WinsEqualLosses

(***************************************************************************)
(* DetailedMatchup.create on rosters whose players carry cents, and the    *)
(* totals of the matchup.                                                  *)
(***************************************************************************)
CentsWirePlayers ==
    {[shape |-> "ok", position |-> "QB", total |-> "18.41"],
     [shape |-> "ok", position |-> "QB", total |-> "19.34"],
     [shape |-> "ok", position |-> "RB", total |-> "26.68"],
     [shape |-> "ok", position |-> "BN", total |-> "19.34"],
     [shape |-> "ok", position |-> "BN", total |-> "26.68"]}

OpponentCentsWirePlayers ==
    {[shape |-> "ok", position |-> "QB", total |-> "18.41"],
     [shape |-> "ok", position |-> "RB", total |-> "19.34"],
     [shape |-> "ok", position |-> "BN", total |-> "26.68"]}

\* The two rosters are parsed (TeamRoster.from_api_data, twice).
DetailedCentsRosters ==
    /\ detailed = None
    /\ \E team1_roster \in WireRosters(CentsWirePlayers, MaxPlayers),
          team2_roster \in WireRosters(OpponentCentsWirePlayers, MaxOpponentPlayers) :
          detailed' = [pc               |-> "call",
                       team1_roster     |-> team1_roster,
                       team2_roster     |-> team2_roster,
                       starter_matchups |-> <<>>,
                       bench_matchups   |-> <<>>]

NextDetailedCents ==
    \/ DetailedCentsRosters /\ UNCHANGED exceptDetailed
    \/ DetailedCreate /\ UNCHANGED exceptDetailed

SpecDetailedCents == InitDetailed /\ [][NextDetailedCents]_vars

\* DetailedMatchup.points_difference
TotalPointsDifference(team1_roster, team2_roster) ==
    FSub(team1_roster.total_points, team2_roster.total_points)

\* The PositionMatchups of the matchup, starters first.
AllPositionMatchups == detailed.starter_matchups \o detailed.bench_matchups

\* sum(pm.points_difference for pm in starter_matchups + bench_matchups)
SumOfDifferences ==
    FSumSigned([i \in 1..Len(AllPositionMatchups) |->
                   PointsDifference(AllPositionMatchups[i])])

\* The players on one side of a list of PositionMatchups, the empty sides left out.
Side1(pms) ==
    LET filled == SelectSeq(pms, LAMBDA pm : pm.team1_player # None)
    IN  [i \in 1..Len(filled) |-> filled[i].team1_player]

Side2(pms) ==
    LET filled == SelectSeq(pms, LAMBDA pm : pm.team2_player # None)
    IN  [i \in 1..Len(filled) |-> filled[i].team2_player]

\* How often a player record occurs in a list.
Occurrences(players, p) == Len(SelectSeq(players, LAMBDA x : x = p))

\* Both lists hold the same players, each as often as the other.
SamePlayers(a, b) ==
    /\ Len(a) = Len(b)
    /\ \A i \in 1..Len(a) : Occurrences(a, a[i]) = Occurrences(b, a[i])

\* The bench side: the bench players by descending points, then only empty sides.
BenchSideRanked(side, bench, Player(_)) ==
    /\ \A i \in 1..Len(side) : (i <= Len(bench)) <=> (Player(side[i]) # None)
    /\ \A i \in 1..(Len(bench) - 1) :
          ~FLess(Player(side[i]).points, Player(side[i + 1]).points)

\* Every starter and every bench player is on its own team's side of exactly one
\* PositionMatchup, the bench paired by descending points rank and padded.
EveryPlayerPairedOnce ==
    /\ SamePlayers(Side1(detailed.starter_matchups), detailed.team1_roster.starters)
    /\ SamePlayers(Side2(detailed.starter_matchups), detailed.team2_roster.starters)
    /\ SamePlayers(Side1(detailed.bench_matchups), detailed.team1_roster.bench)
    /\ SamePlayers(Side2(detailed.bench_matchups), detailed.team2_roster.bench)
    /\ \A i \in 1..Len(detailed.starter_matchups) :
          LET pm == detailed.starter_matchups[i]
          IN  /\ pm.team1_player # None => pm.team1_player.selected_position = pm.position
              /\ pm.team2_player # None => pm.team2_player.selected_position = pm.position
    /\ BenchSideRanked(detailed.bench_matchups, detailed.team1_roster.bench,
                       LAMBDA pm : pm.team1_player)
    /\ BenchSideRanked(detailed.bench_matchups, detailed.team2_roster.bench,
                       LAMBDA pm : pm.team2_player)

MaxWatchPicks == 2

MaxPolls == 4

RateLimitCap == 120

PollIntervals == {10, 50, 150}

WatchPick(pick, player_key) == [pick |-> pick, player_key |-> player_key, player_name |-> ""]

\* What get_draft_picks can return: every pick number absent, open or made, in pick
\* order, and a list that repeats a pick.
PickLists ==
    {[i \in 1..Len(numbers) |-> WatchPick(numbers[i], keys[numbers[i]])] :
        numbers \in {<<>>} \cup {<<n>> : n \in 1..MaxWatchPicks}
                        \cup {<<1, n>> : n \in 2..MaxWatchPicks},
        keys \in [1..MaxWatchPicks -> {"", "p"}]}
    \cup {<<WatchPick(1, "p"), WatchPick(1, "p")>>}

\* str(e) of the exceptions get_draft_picks raises.
PollErrors == {"Client error '999 Unknown HTTP Status'", "Connection timed out"}

Callbacks ==
    {[present |-> FALSE, raises |-> {}]}
        \cup {[present |-> TRUE, raises |-> r] : r \in SUBSET (1..MaxWatchPicks)}

\* (hasattr(pick, 'player_key') and pick.player_key) or
\* (hasattr(pick, 'player_name') and pick.player_name)
HasPlayer(pick) == pick.player_key # "" \/ pick.player_name # ""

\* "999" in error_message or "Unknown HTTP Status" in error_message
IsRateLimit(error_message) == error_message = "Client error '999 Unknown HTTP Status'"

\* Mutant of Backoff: the interval doubles without a cap.
BackoffWithoutCap(poll_interval, consecutive_errors) ==
    poll_interval * (2 ^ consecutive_errors)

\* min(poll_interval * (2 ** consecutive_errors), 120)
Backoff(poll_interval, consecutive_errors) ==
    IF poll_interval * (2 ^ consecutive_errors) < RateLimitCap
    THEN poll_interval * (2 ^ consecutive_errors) ELSE RateLimitCap

\* The pick numbers of the picks with a player (lines 238-242).
PicksWithPlayer(picks) == {picks[i].pick : i \in {j \in 1..Len(picks) : HasPlayer(picks[j])}}

\* Mutant of NewPicks: a new pick is not added to seen_picks.
RECURSIVE NewPicksNotTracked(_, _)
NewPicksNotTracked(current_picks, seen_picks) ==
    IF current_picks = <<>> THEN [new_picks |-> <<>>, seen_picks |-> seen_picks]
    ELSE LET pick == Head(current_picks)
         IN  IF HasPlayer(pick) /\ pick.pick \notin seen_picks
             THEN LET rest == NewPicksNotTracked(Tail(current_picks), seen_picks)
                  IN  [rest EXCEPT !.new_picks = <<pick>> \o @]
             ELSE NewPicksNotTracked(Tail(current_picks), seen_picks)

\* The loop that fills new_picks and seen_picks (lines 272-280).
RECURSIVE NewPicks(_, _)
NewPicks(current_picks, seen_picks) ==
    IF current_picks = <<>> THEN [new_picks |-> <<>>, seen_picks |-> seen_picks]
    ELSE LET pick == Head(current_picks)
         IN  IF HasPlayer(pick) /\ pick.pick \notin seen_picks
             THEN LET rest == NewPicks(Tail(current_picks), seen_picks \cup {pick.pick})
                  IN  [rest EXCEPT !.new_picks = <<pick>> \o @]
             ELSE NewPicks(Tail(current_picks), seen_picks)

\* One invocation of the callback.
CallOf(callback, pick, is_initial_display) ==
    [pick               |-> pick,
     is_initial_display |-> is_initial_display,
     raised             |-> pick.pick \in callback.raises]

\* The invocations of "for pick in initial_picks: callback(pick)" (lines 245-249):
\* the first one that raises is the last.
RECURSIVE InitialCalls(_, _)
InitialCalls(callback, picks) ==
    IF ~callback.present \/ picks = <<>> THEN <<>>
    ELSE LET call == CallOf(callback, Head(picks), TRUE)
         IN  IF call.raised THEN <<call>>
             ELSE <<call>> \o InitialCalls(callback, Tail(picks))

\* The invocations of "for pick in new_picks" (lines 283-292): an exception of one
\* is caught and the next pick follows.
NewCalls(callback, new_picks) ==
    IF ~callback.present THEN <<>>
    ELSE [i \in 1..Len(new_picks) |-> CallOf(callback, new_picks[i], FALSE)]

\* An exception left the try block of the initial picks (lines 251-253).
InitialRaised(fetch_failed, calls) ==
    fetch_failed \/ (calls # <<>> /\ calls[Len(calls)].raised)

\* watch_draft_picks up to the loop (lines 227-255).
WatchCall ==
    /\ watch = None
    /\ \E poll_interval \in PollIntervals, callback \in Callbacks,
          fetch_failed \in BOOLEAN, initial_picks \in PickLists :
          LET picks == IF fetch_failed THEN <<>> ELSE initial_picks
              calls == InitialCalls(callback, picks)
          IN  /\ fetch_failed => initial_picks = <<>>
              /\ watch' = [pc                    |-> IF InitialRaised(fetch_failed, calls)
                                                     THEN "ended" ELSE "watching",
                           reason                |-> IF fetch_failed THEN "initial fetch failed"
                                                     ELSE IF InitialRaised(fetch_failed, calls)
                                                     THEN "initial callback raised"
                                                     ELSE "",
                           poll_interval         |-> poll_interval,
                           callback              |-> callback,
                           initial_picks         |-> picks,
                           seen_picks            |-> PicksWithPlayer(picks),
                           current_poll_interval |-> poll_interval,
                           consecutive_errors    |-> 0,
                           calls                 |-> calls,
                           polls                 |-> 0,
                           last                  |-> "",
                           wait                  |-> -1]
    /\ UNCHANGED exceptWatch

\* An iteration whose get_draft_picks returns (lines 265-310).
Polled(w, current_picks) ==
    LET found     == NewPicks(current_picks, w.seen_picks)
        completed == Len(SelectSeq(current_picks, HasPlayer))
        complete  == completed >= Len(current_picks) /\ Len(current_picks) > 0
    IN  [w EXCEPT !.consecutive_errors = 0,
                  !.current_poll_interval = w.poll_interval,
                  !.seen_picks = found.seen_picks,
                  !.calls = @ \o NewCalls(w.callback, found.new_picks),
                  !.polls = @ + 1,
                  !.last = "picks",
                  !.pc = IF complete THEN "ended" ELSE "watching",
                  !.reason = IF complete THEN "complete" ELSE "",
                  !.wait = IF complete THEN -1 ELSE w.poll_interval]

\* An iteration whose get_draft_picks raises (lines 315-333).
PollFailed(w, error_message) ==
    IF IsRateLimit(error_message)
    THEN LET consecutive_errors == w.consecutive_errors + 1
             interval           == Backoff(w.poll_interval, consecutive_errors)
         IN  [w EXCEPT !.consecutive_errors = consecutive_errors,
                       !.current_poll_interval = interval,
                       !.polls = @ + 1,
                       !.last = "rate limit",
                       !.wait = interval]
    ELSE [w EXCEPT !.consecutive_errors = @ + 1,
                   !.polls = @ + 1,
                   !.last = "error",
                   !.wait = w.current_poll_interval]

\* One iteration of "while True" that polls (lines 257-333).
WatchPoll ==
    /\ watch # None
    /\ watch.pc = "watching"
    /\ watch.polls < MaxPolls
    /\ \/ \E current_picks \in PickLists : watch' = Polled(watch, current_picks)
       \/ \E error_message \in PollErrors : watch' = PollFailed(watch, error_message)
    /\ UNCHANGED exceptWatch

\* The iteration that finds the timeout passed (lines 260-262).
WatchTimeout ==
    /\ watch # None
    /\ watch.pc = "watching"
    /\ watch' = [watch EXCEPT !.pc = "ended", !.reason = "timeout"]
    /\ UNCHANGED exceptWatch

\* KeyboardInterrupt during the fetch or the sleep (lines 312-314).
WatchInterrupt ==
    /\ watch # None
    /\ watch.pc = "watching"
    /\ watch' = [watch EXCEPT !.pc = "ended", !.reason = "interrupt"]
    /\ UNCHANGED exceptWatch

InitWatch ==
    /\ IdleMatchup
    /\ IdleRoster
    /\ IdleSeason
    /\ IdleLater

NextWatch ==
    \/ WatchCall
    \/ WatchPoll
    \/ WatchTimeout
    \/ WatchInterrupt

SpecWatch == InitWatch /\ [][NextWatch]_vars

\* The invocations of the callback for new picks.
NewPickCalls == SelectSeq(watch.calls, LAMBDA c : ~c.is_initial_display)

\* The step is an iteration that polled.
IsPoll == watch # None /\ watch' # None /\ watch'.polls = watch.polls + 1

C23_Calls ==
    watch # None =>
        /\ \A i, j \in 1..Len(NewPickCalls) :
              i # j => NewPickCalls[i].pick.pick # NewPickCalls[j].pick.pick
        /\ \A i \in 1..Len(NewPickCalls) :
              /\ HasPlayer(NewPickCalls[i].pick)
              /\ NewPickCalls[i].pick.pick \notin PicksWithPlayer(watch.initial_picks)

C23_Seen ==
    (watch # None /\ watch' # None) =>
        /\ watch.seen_picks \subseteq watch'.seen_picks
        /\ (IsPoll /\ watch'.last # "picks") => watch'.seen_picks = watch.seen_picks

(***************************************************************************)
(* C23: over any sequence of poll results the callback is invoked for a    *)
(* pick as a new pick at most once per pick number, only for picks that    *)
(* have a player, and never for a pick number that had a player in the     *)
(* initial fetch; seen_picks only grows, and a failed poll leaves it       *)
(* unchanged.                                                              *)
(***************************************************************************)
C23_NewPickOnce == []C23_Calls /\ [][C23_Seen]_vars

\* Two picks delivered as new by two polls with a failed poll among the polls, a
\* pick of the initial fetch having come back with its player.
C23_Witness ==
    /\ watch # None
    /\ Len(NewPickCalls) = 2
    /\ watch.polls >= 3
    /\ watch.consecutive_errors > 0
    /\ watch.initial_picks # <<>>
    /\ PicksWithPlayer(watch.initial_picks) = {}

C24_Step ==
    IsPoll =>
        /\ watch'.last = "rate limit" =>
              /\ watch'.consecutive_errors = watch.consecutive_errors + 1
              /\ watch'.wait =
                    (IF watch.poll_interval * (2 ^ watch'.consecutive_errors) <= 120
                     THEN watch.poll_interval * (2 ^ watch'.consecutive_errors) ELSE 120)
              /\ watch'.current_poll_interval = watch'.wait
        /\ watch'.last = "error" =>
              /\ watch'.consecutive_errors = watch.consecutive_errors + 1
              /\ watch'.wait = watch.current_poll_interval
              /\ watch'.current_poll_interval = watch.current_poll_interval
        /\ watch'.last = "picks" =>
              /\ watch'.consecutive_errors = 0
              /\ watch'.current_poll_interval = watch.poll_interval
              /\ watch'.pc = "watching" => watch'.wait = watch.poll_interval

C25_WaitAtLeastInterval ==
    (watch # None /\ watch.wait # -1) => watch.wait >= watch.poll_interval

\* The same, for the poll intervals up to the cap of the backoff.
WaitAtLeastIntervalUpToCap ==
    (watch # None /\ watch.wait # -1 /\ watch.poll_interval <= RateLimitCap)
        => watch.wait >= watch.poll_interval

(***************************************************************************)
(* C30: an exception raised by the callback for one pick never ends        *)
(* watch_draft_picks, in the display of the initial picks or in the        *)
(* delivery of a new pick: the remaining picks are still delivered and the *)
(* polling goes on until timeout, interrupt or draft completion.           *)
(***************************************************************************)
C30_CallbackErrorsContained ==
    (watch # None /\ watch.callback.present) =>
        /\ Len(SelectSeq(watch.calls, LAMBDA c : c.is_initial_display))
              = Len(watch.initial_picks)
        /\ watch.pc = "ended" =>
              watch.reason \in {"initial fetch failed", "timeout", "interrupt", "complete"}

\* What holds: in the loop every new pick of a poll is delivered, whether or not the
\* callback raised for an earlier one, and the poll ends the watch only on completion.
NewPickCallbackErrorsContained ==
    [][(IsPoll /\ watch.callback.present) =>
          /\ Len(watch'.calls) - Len(watch.calls)
                = Cardinality(watch'.seen_picks \ watch.seen_picks)
          /\ watch'.pc = "ended" => watch'.reason = "complete"]_vars

(***************************************************************************)
(* C26: _make_request makes at most 5 attempts per call and then re-raises *)
(* the last error; an attempt is retried only after a connection or        *)
(* timeout error or a response with status 429, 500, 502, 503, 504 or 999, *)
(* so that a response with another error status is raised to the caller    *)
(* after a single attempt; within one attempt a 401 response triggers      *)
(* exactly one token refresh and one re-send.                              *)
(***************************************************************************)
C26_RetriedOnlyWhenRetryable ==
    http # None =>
        /\ http.attempt <= 5
        /\ http.pc = "wait" => IsRetryableError(http.status)
        /\ (http.result = "raised" /\ http.status \in {"404"}) => http.attempt = 1

\* What holds: at most 5 attempts, the error raised to the caller once the fifth has
\* failed, and in one attempt at most one refresh after a 401, followed by one re-send
\* whose response ends the attempt.
AttemptsBoundedOneRefreshEach ==
    /\ [](http # None => http.attempt <= 5)
    /\ [][(http # None /\ http' # None) =>
            /\ http'.attempt \in {http.attempt, http.attempt + 1, 1}
            /\ (http.pc = "wait" /\ http'.pc # "wait") => http'.attempt = http.attempt + 1
            /\ http'.pc = "refresh_401" => (http.pc = "request" /\ http'.status = "401")
            /\ http.pc = "refresh_401" =>
                  \/ http'.pc = "resend" /\ http'.issued = http.issued + 1
                                         /\ http'.attempt = http.attempt
                  \/ http'.pc \in {"wait", "idle"} /\ http'.issued = http.issued
            /\ http.pc = "resend" => http'.pc \in {"idle", "wait"}
            /\ (http.pc \in {"request", "resend", "refresh_401"} /\ http.method # "post"
                   /\ http'.pc = "idle" /\ http'.result = "raised")
                  => http.attempt = 5]_vars

(***************************************************************************)
(* AuthClient.get_valid_token.  auth.store is the token file: missing,     *)
(* unreadable (load_token returns None for both) or holding a token.  A    *)
(* step is the code up to the next blocking operation: the POST of         *)
(* refresh_token, or authorize (the browser round trip and the POST of     *)
(* _exchange_code).  auth.events lists what the call in progress, or the   *)
(* last call, has done; auth.loaded is what its load_token returned.       *)
(***************************************************************************)
NoToken == [access_token |-> -1, refresh_token |-> -1, expires_at |-> 0]

Missing == [state |-> "missing", token |-> NoToken]

Unreadable == [state |-> "unreadable", token |-> NoToken]

Stored(token) == [state |-> "token", token |-> token]

\* AuthClient.load_token: None is NoToken.
LoadToken(store) == IF store.state = "token" THEN store.token ELSE NoToken

\* The Token built by _exchange_code (lines 265-270), time.time() being now.
ExchangedToken(token_data, now) ==
    [access_token  |-> token_data.access_token,
     refresh_token |-> token_data.refresh_token,
     expires_at    |-> now + token_data.expires_in]

\* Mutant of SaveAndReturn: the token is returned without being saved.
SaveAndReturnUnsaved(a, token, event, elapsed) ==
    [a EXCEPT !.pc = "idle",
              !.now = @ + elapsed,
              !.issued = @ + 1,
              !.events = @ \o <<event, "save">>,
              !.result = "returned",
              !.token = token,
              !.returned_at = a.now + elapsed]

\* self.save_token(token); return token
SaveAndReturn(a, token, event, elapsed) ==
    [a EXCEPT !.pc = "idle",
              !.now = @ + elapsed,
              !.issued = @ + 1,
              !.store = Stored(token),
              !.events = @ \o <<event, "save">>,
              !.result = "returned",
              !.token = token,
              !.returned_at = a.now + elapsed]

\* An exception leaves get_valid_token.
AuthRaise(a, elapsed) ==
    [a EXCEPT !.pc = "idle", !.now = @ + elapsed, !.result = "raised", !.token = NoToken]

InitAuth ==
    /\ IdleMatchup
    /\ IdleRoster
    /\ IdleSeason
    /\ IdleLater

\* AuthClient(settings), with whatever the token file holds.
AuthNew ==
    /\ auth = None
    /\ \E store \in {Missing, Unreadable}
                      \cup {Stored([access_token |-> 0, refresh_token |-> 0,
                                    expires_at |-> expires_at]) : expires_at \in {0, 80}} :
          auth' = [pc |-> "idle", now |-> 0, store |-> store, loaded |-> NoToken,
                   events |-> <<>>, result |-> "", token |-> NoToken, returned_at |-> 0,
                   issued |-> 0, lifetimes |-> {}]
    /\ UNCHANGED exceptAuth

\* get_valid_token up to its first blocking operation (lines 336-356).
AuthGetValidToken ==
    /\ auth # None
    /\ auth.pc = "idle"
    /\ LET token  == LoadToken(auth.store)
           called == [auth EXCEPT !.loaded = token, !.events = <<>>, !.result = "",
                                  !.token = NoToken]
       IN  auth' = IF token = NoToken THEN [called EXCEPT !.pc = "authorize"]
                   ELSE IF IsExpired(token, auth.now) THEN [called EXCEPT !.pc = "refresh"]
                   ELSE [called EXCEPT !.result = "returned", !.token = token,
                                       !.returned_at = auth.now]
    /\ UNCHANGED exceptAuth

\* The token endpoint answers the POST of refresh_token (lines 345-354).
AuthRefresh ==
    /\ auth # None
    /\ auth.pc = "refresh"
    /\ \E elapsed \in Elapsed(auth) :
          \/ /\ auth.issued < MaxIssued
             /\ \E token_data \in TokenResponses(auth) :
                   auth' = SaveAndReturn(
                               [auth EXCEPT !.lifetimes = @ \cup {token_data.expires_in}],
                               RefreshedToken(auth.loaded, token_data, auth.now + elapsed),
                               "refresh", elapsed)
          \/ \* httpx.HTTPStatusError
             auth' = [auth EXCEPT !.pc = "authorize", !.now = @ + elapsed,
                                  !.events = @ \o <<"refresh failed">>]
          \/ \* any other exception
             auth' = AuthRaise([auth EXCEPT !.events = @ \o <<"refresh failed">>], elapsed)
    /\ UNCHANGED exceptAuth

\* authorize returns or raises (lines 339-341 and 351-354).
AuthAuthorize ==
    /\ auth # None
    /\ auth.pc = "authorize"
    /\ \E elapsed \in Elapsed(auth) :
          \/ /\ auth.issued < MaxIssued
             /\ \E token_data \in {d \in TokenResponses(auth) : d.has_refresh_token} :
                   auth' = SaveAndReturn(
                               [auth EXCEPT !.lifetimes = @ \cup {token_data.expires_in}],
                               ExchangedToken(token_data, auth.now + elapsed),
                               "authorize", elapsed)
          \/ auth' = AuthRaise([auth EXCEPT !.events = @ \o <<"authorize failed">>], elapsed)
    /\ UNCHANGED exceptAuth

\* Time passes between two calls.
AuthIdle ==
    /\ auth # None
    /\ auth.pc = "idle"
    /\ auth.now + ClockStep <= MaxClockSteps * ClockStep
    /\ auth' = [auth EXCEPT !.now = @ + ClockStep]
    /\ UNCHANGED exceptAuth

NextAuth ==
    \/ AuthNew
    \/ AuthGetValidToken
    \/ AuthRefresh
    \/ AuthAuthorize
    \/ AuthIdle

SpecAuth == InitAuth /\ [][NextAuth]_vars

\* get_valid_token has returned a token.
AuthReturned == auth # None /\ auth.pc = "idle" /\ auth.result = "returned"

\* This step is a call of get_valid_token.
AuthCalled == auth # None /\ auth.pc = "idle" /\ auth' # None /\ auth'.events = <<>>
                 /\ auth'.loaded = LoadToken(auth.store) /\ auth' # auth
                 /\ auth'.now = auth.now

C22_Paths ==
    AuthReturned =>
        /\ auth.events \in {<<>>, <<"authorize", "save">>, <<"refresh", "save">>,
                            <<"refresh failed", "authorize", "save">>}
        /\ auth.events = <<>> =>
              /\ auth.loaded # NoToken
              /\ auth.token = auth.loaded
              /\ auth.store = Stored(auth.loaded)
              /\ ~(auth.returned_at > auth.loaded.expires_at - 60)
        /\ auth.events # <<>> =>
              /\ auth.store = Stored(auth.token)
              /\ auth.token.access_token # auth.loaded.access_token
        /\ (auth.events # <<>> /\ auth.events[1] = "authorize") <=>
              (auth.events # <<>> /\ auth.loaded = NoToken)
        /\ (auth.events # <<>> /\ auth.events[1] # "authorize") =>
              /\ auth.loaded # NoToken
              /\ auth.loaded.expires_at - 60 < auth.returned_at
        /\ (\A expires_in \in auth.lifetimes : expires_in > 60)
              => ~(auth.returned_at > auth.token.expires_at - 60)

C22_Call ==
    AuthCalled =>
        /\ auth'.store = auth.store
        /\ auth'.pc = "idle" <=>
              (auth.store.state = "token"
                 /\ ~(auth.now > auth.store.token.expires_at - 60))
        /\ auth'.pc = "authorize" <=> auth.store.state # "token"

(***************************************************************************)
(* C22: get_valid_token returns a stored, unexpired token as it is, with   *)
(* no authorize, refresh or save; otherwise it authorizes (no stored       *)
(* token, or the refresh was rejected with an HTTP status error) or        *)
(* refreshes (stored token expired), and then the new token is saved to    *)
(* the token store before it is returned; the issued lifetimes being       *)
(* longer than 60 seconds, the token returned is not expired.              *)
(***************************************************************************)
C22_ValidToken == []C22_Paths /\ [][C22_Call]_vars

\* A stored token that expired between two calls, its refresh rejected, and the
\* token of the authorization that followed saved and returned.
C22_Witness ==
    /\ AuthReturned
    /\ auth.events = <<"refresh failed", "authorize", "save">>
    /\ auth.loaded.expires_at = 80
    /\ auth.lifetimes = {80}
    /\ auth.store = Stored(auth.token)
    /\ ~IsExpired(auth.token, auth.returned_at)

====
